---- MODULE Spec2Model ----
(***************************************************************************)
(* A model of the clip acquisition and enhancement pipeline:               *)
(*   clip_scraper.py      AnimeClipScraper (source adapters, scrape,       *)
(*                        download_clips)                                  *)
(*   super_resolution.py  SuperResolution.process_video                    *)
(*                                                                         *)
(* Text is modelled as a sequence of tokens.  A token is either one        *)
(* punctuation character or a run of word characters that no searched      *)
(* pattern cuts through, so that the substring, prefix, suffix and split   *)
(* operations of the code are the same operations on token sequences.      *)
(***************************************************************************)
EXTENDS Integers, Sequences, FiniteSets, TLC

(***************************************************************************)
(* Bounds of the model.                                                    *)
(***************************************************************************)
MaxPathLen == 2
MaxLimit == 2
MaxPages == 2
MaxElems == 2
MaxItems == 3
MaxPosts == 3
MaxResults == 2
MaxEntries == 3
MaxSources == 2
MaxOut == 2
MaxClips == 2
MaxFrames == 2
MaxChunk == 2

(***************************************************************************)
(* Text helpers (Python str operations on token sequences).                *)
(***************************************************************************)
Take(s, n) == SubSeq(s, 1, IF n < Len(s) THEN n ELSE Len(s))

Drop(s, n) == SubSeq(s, n + 1, Len(s))

\* s[i:i+len(p)] == p
MatchAt(s, p, i) ==
    /\ i >= 1
    /\ i + Len(p) - 1 <= Len(s)
    /\ \A k \in 1..Len(p) : s[i + k - 1] = p[k]

\* p in s
Contains(s, p) == \E i \in 1..(Len(s) + 1) : MatchAt(s, p, i)

\* s.find(p) as a 1-based position, 0 when p does not occur
Find(s, p) ==
    IF Contains(s, p)
    THEN CHOOSE i \in 1..(Len(s) + 1) :
            /\ MatchAt(s, p, i)
            /\ \A j \in 1..(i - 1) : ~MatchAt(s, p, j)
    ELSE 0

\* s.rfind(p) as a 1-based position, 0 when p does not occur
RFind(s, p) ==
    IF Contains(s, p)
    THEN CHOOSE i \in 1..(Len(s) + 1) :
            /\ MatchAt(s, p, i)
            /\ \A j \in (i + 1)..(Len(s) + 1) : ~MatchAt(s, p, j)
    ELSE 0

\* s.endswith(p)
EndsWith(s, p) == Len(p) <= Len(s) /\ MatchAt(s, p, Len(s) - Len(p) + 1)

StartsWith(s, p) == MatchAt(s, p, 1)

\* s.split(p)[0]
SplitHead(s, p) == IF Contains(s, p) THEN Take(s, Find(s, p) - 1) ELSE s

\* the text after the first occurrence of p (p occurs in s)
AfterFirst(s, p) == Drop(s, Find(s, p) + Len(p) - 1)

\* s.split(p)[1] (p occurs in s)
SplitSecond(s, p) == SplitHead(AfterFirst(s, p), p)

\* str.lower() of one token
LowerTok(t) ==
    CASE t = "MP4" -> "mp4"
      [] t = "GIF" -> "gif"
      [] OTHER -> t

Lower(s) == [i \in 1..Len(s) |-> LowerTok(s[i])]

\* the tokens made of word characters only (\w of the re module)
WordToks ==
    {"a", "b", "t", "x", "v", "id", "clip", "watch", "host", "cdn", "www",
     "youtube", "youtu", "be", "com", "saku", "post", "q", "data", "images",
     "tenor", "media", "redd", "it", "gallery", "source", "fallback",
     "mp4", "webm", "gif", "jpg", "jpeg", "png", "mkv", "mov", "MP4", "GIF",
     "https", "_", "hot", "search", "anime", "cat", "page", "webp",
     "enhanced", "direct", "fallback",
     "0", "1", "2", "3", "4", "5", "6", "7", "8", "9"}

IsWord(t) == t \in WordToks

(***************************************************************************)
(* urllib.parse.urlparse(url).path                                         *)
(***************************************************************************)
\* length of "scheme:" at the head of u, 0 when u has no scheme
SchemeLen(u) == IF Len(u) >= 2 /\ IsWord(u[1]) /\ u[2] = ":" THEN 2 ELSE 0

\* the first position >= from holding one of the tokens of stop, Len(s)+1 if none
FirstOf(s, stop, from) ==
    IF \E i \in from..Len(s) : s[i] \in stop
    THEN CHOOSE i \in from..Len(s) :
            s[i] \in stop /\ \A j \in from..(i - 1) : s[j] \notin stop
    ELSE Len(s) + 1

HasNetloc(u) == MatchAt(u, <<"/", "/">>, SchemeLen(u) + 1)

\* the position where the path starts
PathStart(u) ==
    IF HasNetloc(u)
    THEN FirstOf(u, {"/", "?", "#"}, SchemeLen(u) + 3)
    ELSE SchemeLen(u) + 1

UrlNetloc(u) ==
    IF HasNetloc(u) THEN SubSeq(u, SchemeLen(u) + 3, PathStart(u) - 1) ELSE <<>>

UrlPath(u) == SubSeq(u, PathStart(u), FirstOf(u, {"?", "#"}, PathStart(u)) - 1)

\* os.path.basename
Basename(p) == Drop(p, RFind(p, <<"/">>))

\* os.path.splitext(p)[1]: the text from the last dot on, leading dots of the
\* last component not counting as an extension separator
SplitExtExt(p) ==
    LET sepIndex == RFind(p, <<"/">>)
        dotIndex == RFind(p, <<".">>)
    IN  IF dotIndex > sepIndex
           /\ \E k \in (sepIndex + 1)..(dotIndex - 1) : p[k] # "."
        THEN Drop(p, dotIndex - 1)
        ELSE <<>>

(***************************************************************************)
(* Filename derivation of download_clips.                                  *)
(***************************************************************************)
TitleLimit == 50

\* re.sub(r'[^\w\-_. ]', '_', title)
SubTitle(s) ==
    [i \in 1..Len(s) |->
        IF IsWord(s[i]) \/ s[i] \in {"-", "_", ".", " "} THEN s[i] ELSE "_"]

\* re.sub(r'[^\w\-_.]', '_', filename)
SubFilename(s) ==
    [i \in 1..Len(s) |->
        IF IsWord(s[i]) \/ s[i] \in {"-", "_", "."} THEN s[i] ELSE "_"]

IsYoutubeUrl(url) ==
    \/ Contains(url, <<"youtube", ".", "com">>)
    \/ Contains(url, <<"youtu", ".", "be">>)

\* the video id of a YouTube URL, <<>> when none is found
VideoId(url) ==
    IF Contains(url, <<"youtube", ".", "com", "/", "watch">>)
       /\ Contains(url, <<"v", "=">>)
    THEN SplitHead(SplitSecond(url, <<"v", "=">>), <<"&">>)
    ELSE IF Contains(url, <<"youtu", ".", "be", "/">>)
         THEN SplitHead(SplitSecond(url, <<"youtu", ".", "be", "/">>), <<"?">>)
         ELSE <<>>

\* the name before sanitisation
RawFilename(url, title) ==
    IF IsYoutubeUrl(url) /\ VideoId(url) # <<>> /\ title # <<>>
    THEN Take(SubTitle(title), TitleLimit) \o <<"_">> \o VideoId(url)
            \o <<".", "mp4">>
    ELSE Basename(UrlPath(url))

\* if not os.path.splitext(filename)[1]: filename += ".mp4"
EnsureExtension(f) == IF SplitExtExt(f) = <<>> THEN f \o <<".", "mp4">> ELSE f

DeriveFilename(url, title) == EnsureExtension(SubFilename(RawFilename(url, title)))


(***************************************************************************)
(* Clip references and source configurations.                              *)
(***************************************************************************)
\* a duration of None (detailed_info.get('duration') found nothing)
NoneDur == -1

DefaultMinDuration == 10

DefaultMaxDuration == 180

\* a clip dictionary; a key the adapter does not set reads as <<>> / NoneDur
Ref(source, url, title, author, tags, duration) ==
    [source |-> source, url |-> url, title |-> title, author |-> author,
     tags |-> tags, duration |-> duration]

\* str(n) for the small numbers the model formats
NumTok(n) ==
    CASE n = 0 -> "0" [] n = 1 -> "1" [] n = 2 -> "2" [] n = 3 -> "3"
      [] n = 4 -> "4" [] n = 5 -> "5" [] n = 6 -> "6" [] n = 7 -> "7"
      [] n = 8 -> "8" [] OTHER -> "9"

SakugaBase == <<"https", ":", "/", "/", "saku", ".", "com", "/", "post", "?", "q">>

RedditBase == <<"https", ":", "/", "/", "redd", ".", "it", "/", "hot">>

TenorBase == <<"https", ":", "/", "/", "tenor", ".", "com", "/", "search", "/", "anime">>

\* one entry of config["sources"]; a key the entry lacks reads as 0 / <<>>
Source(name, base_url, max_pages, max_items, max_results, search_term) ==
    [name |-> name, base_url |-> base_url, page_param |-> <<"page", "=", "{}">>,
     max_pages |-> max_pages, max_items |-> max_items,
     max_results |-> max_results, min_duration |-> DefaultMinDuration,
     max_duration |-> DefaultMaxDuration, search_term |-> search_term]

SakugaSources ==
    {Source("sakugabooru", SakugaBase, p, 0, 0, <<>>) : p \in 1..MaxPages}

RedditSources ==
    {Source("animeclips_reddit", RedditBase, 0, m, 0, <<>>) : m \in 1..MaxItems}

YoutubeSources ==
    {Source("youtube_anime", <<>>, 0, 0, r, <<"anime">>) : r \in 1..MaxLimit}

TenorSources ==
    {Source("tenor_anime", TenorBase, 0, 0, 0, s) : s \in {<<"anime">>, <<"cat">>}}

(***************************************************************************)
(* urllib.parse.urljoin(base, link), for the link shapes of the model.     *)
(***************************************************************************)
UrlJoin(base, link) ==
    IF link = <<>> THEN base
    ELSE IF SchemeLen(link) > 0 THEN link
    ELSE IF StartsWith(link, <<"/", "/">>) THEN Take(base, SchemeLen(base)) \o link
    ELSE IF StartsWith(link, <<"/">>) THEN Take(base, PathStart(base) - 1) \o link
    ELSE LET p == UrlPath(base)
         IN  Take(base, PathStart(base) - 1)
                \o (IF p = <<>> THEN <<"/">> ELSE Take(p, RFind(p, <<"/">>)))
                \o link

(***************************************************************************)
(* scrape_sakugabooru: the handling of one listing element.                *)
(***************************************************************************)
\* a listing element: kind "nolink" (the link selector finds nothing),
\* "raises" (its handling raises inside the try) or "ok" with its href
\* attribute (<<>> when missing) and its data-tags attribute
Element(kind, href, data_tags) == [kind |-> kind, href |-> href, data_tags |-> data_tags]

SakugaElems ==
    {Element("nolink", <<>>, <<>>),
     Element("raises", <<>>, <<>>),
     Element("ok", <<>>, <<>>),
     Element("ok", <<"/", "post", "/", "a">>, <<>>),
     Element("ok", <<"/", "data", "/", "a", ".", "mp4">>, <<"x", " ", "t">>),
     Element("ok", <<"https", ":", "/", "/", "cdn", "/", "b", ".", "webm">>, <<>>)}

\* any(ext in link.lower() for ext in ['.mp4', '.webm', '.gif'])
IsMediaLink(link) ==
    \E ext \in {"mp4", "webm", "gif"} : Contains(Lower(link), <<".", ext>>)

\* tags_element.split()
SplitTags(s) == SelectSeq(s, LAMBDA t : t # " ")

SakugaElement(cl, e, source) ==
    IF e.kind # "ok" \/ e.href = <<>> \/ ~IsMediaLink(e.href)
    THEN cl
    ELSE Append(cl,
            Ref(source.name,
                IF UrlNetloc(e.href) = <<>>
                THEN UrlJoin(source.base_url, e.href) ELSE e.href,
                <<>>, <<>>, SplitTags(e.data_tags), NoneDur))

RECURSIVE SakugaElements(_, _, _)
SakugaElements(cl, elems, source) ==
    IF elems = <<>> THEN cl
    ELSE SakugaElements(SakugaElement(cl, Head(elems), source), Tail(elems), source)

\* the URL of page n
SakugaPageUrl(source, n) ==
    IF n > 1
    THEN source.base_url \o <<"&">>
            \o [i \in 1..Len(source.page_param) |->
                    IF source.page_param[i] = "{}" THEN NumTok(n)
                    ELSE source.page_param[i]]
    ELSE source.base_url

MutSakugaLoopTest(page, source) == page <= source.max_pages + 1

\* while current_page <= source["max_pages"]
SakugaLoopTest(page, source) == page <= source.max_pages

MutLimitReached(cl, limit) == Len(cl) > limit

\* if len(clips) >= self.config["download_limit"]: break
LimitReached(cl, limit) == Len(cl) >= limit

MutTruncate(cl, limit) == cl

\* clips[:limit] for a positive limit
Truncate(cl, limit) == Take(cl, limit)

(***************************************************************************)
(* scrape_reddit: the handling of one feed entry.                          *)
(***************************************************************************)
\* a feed entry: shape "null_data" (its "data" is null) or "ok"; url is <<>> when the entry has none; secure_media is
\* "absent", "null" or "video" (a reddit_video with the fallback_url given,
\* <<>> when it declares none)
Post(shape, url, secure_media, fallback_url) ==
    [shape |-> shape, url |-> url, secure_media |-> secure_media,
     fallback_url |-> fallback_url, title |-> <<"t">>, author |-> <<"a">>]

VReddit == <<"https", ":", "/", "/", "v", ".", "redd", ".", "it", "/", "a">>

Posts ==
    {Post("ok", <<"https", ":", "/", "/", "host", "/", "gallery", "/", "a">>, "absent", <<>>),
     Post("ok", <<>>, "absent", <<>>),
     Post("ok", <<"https", ":", "/", "/", "host", "/", "a", ".", "mp4">>, "absent", <<>>),
     Post("ok", VReddit, "video", VReddit \o <<"/", "x", ".", "mp4">>),
     Post("ok", VReddit, "video",
          VReddit \o <<"/", "x", ".", "mp4", "?", "source", "=", "fallback">>),
     Post("ok", VReddit, "absent", <<>>),
     Post("ok", VReddit, "null", <<>>),
     Post("null_data", <<>>, "absent", <<>>)}

IsGallery(url) == Contains(url, <<"gallery">>)

IsVReddit(url) == Contains(url, <<"v", ".", "redd", ".", "it">>)

\* if not url or "gallery" in url: continue
RedditSkips(post) == post.url = <<>> \/ IsGallery(post.url)

\* the statements of one iteration that raise AttributeError on a null
RedditRaises(post) ==
    \/ post.shape # "ok"
    \/ ~RedditSkips(post) /\ IsVReddit(post.url) /\ post.secure_media = "null"

\* the url after the v.redd.it indirection is followed
ResolvedUrl(post) ==
    IF IsVReddit(post.url) /\ post.secure_media = "video" /\ post.fallback_url # <<>>
    THEN post.fallback_url
    ELSE post.url

\* url.endswith(('.mp4', '.gif', '.webm', '.jpg', '.jpeg', '.png'))
IsDirectMedia(url) ==
    \E ext \in {"mp4", "gif", "webm", "jpg", "jpeg", "png"} : EndsWith(url, <<".", ext>>)

\* the clips after one entry that neither raises nor is skipped
RedditAccept(cl, post, source) ==
    IF IsDirectMedia(ResolvedUrl(post))
    THEN Append(cl, Ref(source.name, ResolvedUrl(post), post.title, post.author,
                        <<>>, NoneDur))
    ELSE cl

MutRedditSlice(posts, source) == posts

\* posts[:source["max_items"]]
RedditSlice(posts, source) == Take(posts, source.max_items)

(***************************************************************************)
(* scrape_youtube: the handling of one search result.                      *)
(***************************************************************************)
\* a search result: kind "none" (a null entry), "playlist", "noid" or "video"
EntryKinds == {"none", "playlist", "noid", "video"}

\* what the detailed lookup of a video gives: it raises, or a duration
Durations ==
    {NoneDur, 0, DefaultMinDuration - 1, DefaultMinDuration, DefaultMaxDuration,
     DefaultMaxDuration + 1}

YoutubeUrl(id) ==
    <<"https", ":", "/", "/", "www", ".", "youtube", ".", "com", "/", "watch",
      "?", "v", "=", id>>

\* if duration and (duration < min_duration or duration > max_duration): continue
DurationRejected(duration, source) ==
    /\ duration # NoneDur
    /\ duration # 0
    /\ (duration < source.min_duration \/ duration > source.max_duration)

(***************************************************************************)
(* scrape_tenor: the handling of one gallery element.                      *)
(***************************************************************************)
\* a gallery element: kind as for a listing element, with the src, data-src
\* and alt attributes of its image (<<>> when missing)
Gif(kind, src, data_src, alt) == [kind |-> kind, src |-> src, data_src |-> data_src, alt |-> alt]

TenorMedia == <<"https", ":", "/", "/", "media", ".", "tenor", ".", "com">>

TenorElems ==
    {Gif("nolink", <<>>, <<>>, <<>>),
     Gif("raises", <<>>, <<>>, <<>>),
     Gif("ok", <<>>, <<>>, <<>>),
     Gif("ok", TenorMedia \o <<"/", "images", "/", "id", "/", "a", ".", "webp">>, <<>>, <<"tenor">>),
     Gif("ok", <<>>, TenorMedia \o <<"/", "a", ".", "webp">>, <<>>),
     Gif("ok", <<"https", ":", "/", "/", "cdn", "/", "b", ".", "gif">>, <<>>, <<"t">>),
     Gif("ok", <<>>, <<"/", "a", ".", "GIF">>, <<>>)}

\* the fetched URL
TenorUrl(source) ==
    IF Contains(source.base_url, source.search_term)
    THEN source.base_url
    ELSE <<"https", ":", "/", "/", "tenor", ".", "com", "/", "search", "/">>
            \o source.search_term \o <<"-", "gifs">>

\* img_element.get('src') or img_element.get('data-src')
GifSrc(e) == IF e.src # <<>> THEN e.src ELSE e.data_src

\* "images" is a whole "/"-separated part at position j and has a successor
ImagesPartAt(s, j) ==
    /\ s[j] = "images"
    /\ (j = 1 \/ s[j - 1] = "/")
    /\ j < Len(s)
    /\ s[j + 1] = "/"

\* the part after the first part equal to "images", <<>> when there is none
GifId(s) ==
    IF \E j \in 1..Len(s) : ImagesPartAt(s, j)
    THEN LET j == CHOOSE j \in 1..Len(s) :
                    ImagesPartAt(s, j) /\ \A k \in 1..(j - 1) : ~ImagesPartAt(s, k)
         IN  SubSeq(s, j + 2, FirstOf(s, {"/"}, j + 2) - 1)
    ELSE <<>>

\* the src after the conversion to the GIF version
GifUrl(src) ==
    IF Contains(src, <<"tenor", ".", "com">>) /\ ~EndsWith(src, <<".", "gif">>)
       /\ Contains(src, <<"/", "images", "/">>) /\ GifId(src) # <<>>
    THEN TenorMedia \o <<"/", "images", "/">> \o GifId(src)
            \o <<"/", "tenor", ".", "gif">>
    ELSE src

TenorElement(cl, e, source) ==
    IF e.kind # "ok" \/ GifSrc(e) = <<>>
       \/ ~EndsWith(Lower(GifUrl(GifSrc(e))), <<".", "gif">>)
    THEN cl
    ELSE Append(cl,
            Ref(source.name, GifUrl(GifSrc(e)),
                IF e.alt # <<>> /\ e.alt # <<"tenor">> THEN e.alt
                ELSE <<"tenor", "_", "gif", "_", NumTok(Len(cl))>>,
                <<>>, <<"anime">> \o source.search_term, NoneDur))

\* the loop over the elements, left as soon as an append reaches the limit
RECURSIVE TenorElements(_, _, _, _)
TenorElements(cl, elems, source, limit) ==
    IF elems = <<>> THEN cl
    ELSE LET c2 == TenorElement(cl, Head(elems), source)
         IN  IF c2 # cl /\ LimitReached(c2, limit) THEN c2
             ELSE TenorElements(c2, Tail(elems), source, limit)

(***************************************************************************)
(* State.                                                                  *)
(***************************************************************************)
VARIABLES
    \* self.config
    download_limit,  \* config["download_limit"]
    prefer_video,    \* config.get("prefer_video", True)
    sources,         \* config["sources"]
    \* filename derivation on one clip
    fn_pc,           \* "start" or "done"
    fn_url,          \* clip["url"]
    fn_title,        \* clip.get("title"), <<>> when absent or empty
    fn_filename,     \* the derived filename
    \* a source adapter
    ad_source,       \* the source entry the adapter runs on
    ad_pc,           \* "start", "loop", "break", "returned" or "raised"
    clips,           \* the adapter's clips list
    current_page,    \* scrape_sakugabooru's current_page
    fetches,         \* number of requests.get calls made
    ad_delays,       \* number of random_delay calls made
    last_url,        \* the URL of the last requests.get
    feed,            \* the entries of the fetched feed / search result
    feed_i,          \* number of entries handled
    ad_result,       \* the returned list
    \* scrape
    sc_pc,           \* "loop", "download" or "done"
    sc_i,            \* number of sources handled
    all_clips,       \* scrape's all_clips list
    sc_log,          \* per handled source: its name, the outcome and the returned list
    handed,          \* the list passed to download_clips
    \* download_clips
    dl_pc,           \* "start", "loop", "enhance" or "done"
    dl_input,        \* the clips argument as download_clips was called with it
    dl_clips,        \* the clips argument (sorted in place)
    dl_i,            \* number of clips handled by the for loop
    filename,        \* the filename derived for the clip at hand, <<>> past the last
    files,           \* the names of the files of the download directory
    fs_log,          \* the file creations and overwrites, in order
    downloaded_videos, \* download_clips' downloaded_videos list
    dl_delays,       \* number of random_delay calls made
    dl_outcome,      \* per handled clip: what happened to it
    dl_run,          \* 1 in the first invocation, 2 in the second
    files_before,    \* the files at the start of the current invocation
    enhance_on,      \* self.super_resolution and config.get("enhance_videos")
    enh_i,           \* number of downloaded videos handled by the enhance loop
    \* process_video
    pv_pc,           \* "start", "frames", "encode", "returned" or "raised"
    pv_frames,       \* number of frames the decoder yields
    pv_size,         \* <<width, height>> of the input
    total_frames,    \* CAP_PROP_FRAME_COUNT as the container reports it
    chunk_size,      \* the chunk_size argument
    pv_scale,        \* self.scale
    frame_count,     \* process_video's frame_count
    frames_processed, \* process_video's frames_processed
    temp_dir,        \* the frame store: frame number -> <<width, height>>
    temp_exists,     \* the temporary directory exists
    encoder_runs,    \* per run of the encoder: the frames it was given
    same_path,       \* output_path names the input file
    output_exists,   \* output_path named a file when process_video was called
    input_intact,    \* the input file has its original content
    output_written,  \* the encoder wrote output_path
    encode_status,   \* "none", "ok", "failed" (nonzero exit) or "unstartable"
    pv_result,       \* "none", "output" (output_path) or "input" (input_path)
    \* configuration edits: add_source.py and --search of main
    cf_pc,           \* "idle", "edit" or "scrape" (the edited configuration is scraped)
    cf_op,           \* the last edit: "none", "html", "api" or "search"
    cf_name,         \* the name given to the last add, "" when there was none
    cf_ret,          \* what the last add returned: "none", "true" or "false"
    cf_edits,        \* number of edits made
    \* main of clip_scraper.py
    mn_pc,           \* "start", "args", "mode" or "exited"
    enhance_only,    \* args.enhance_only: "None" when the option is absent
    enhance,         \* args.enhance
    has_realesrgan,  \* HAS_REALESRGAN
    enhance_videos,  \* config["enhance_videos"]
    super_resolution, \* scraper.super_resolution: "None" or "ready"
    sr_failed,       \* the last SuperResolution(...) call raised
    enhance_dir,     \* what the directory argument names: "missing", "file" or "dir"
    mn_calls,        \* what main called: "batch" and "scrape"
    mn_status,       \* the exit status of the process, -1 while it runs
    \* batch_process_directory
    bp_pc,           \* "start", "loop" or "returned"
    bp_files,        \* the files under input_dir, as relative paths
    bp_outputs,      \* the relative paths that name a file under output_dir
    bp_existing,     \* bp_outputs as it was when batch_process_directory was called
    file_types,      \* the file_types argument
    recursive,       \* the recursive argument
    skip_existing,   \* the skip_existing argument
    video_files,     \* batch_process_directory's video_files
    bp_i,            \* number of video files handled by the for loop
    processed_videos, \* batch_process_directory's processed_videos
    bp_calls,        \* the calls of process_video, in order
    output_inside,   \* the output_dir argument is None: input_dir / 'upscaled'
    bp_run,          \* which call of batch_process_directory this is: 1 or 2
    first_calls,     \* Len(bp_calls) when the second call began
    first_outputs,   \* bp_outputs when the second call began
    \* organize_clips.py: list_clips and rename_clips
    rn_pc,           \* "start", "loop", "returned" or "raised"
    rn_dir,          \* the directory: the content of each file, by path
    rn_before,       \* rn_dir as it was when list_clips was called
    rn_clips,        \* the clips argument of rename_clips
    rn_i,            \* number of clips handled by the for loop
    rn_prefix,       \* the prefix argument, <<>> for None
    rn_numbered      \* the numbered argument

configVars == <<download_limit, prefer_video, sources>>

fnVars == <<fn_pc, fn_url, fn_title, fn_filename>>

adVars ==
    <<ad_source, ad_pc, clips, current_page, fetches, ad_delays, last_url, feed,
      feed_i, ad_result>>

scVars == <<sc_pc, sc_i, all_clips, sc_log, handed>>

dlVars ==
    <<dl_pc, dl_input, dl_clips, dl_i, filename, files, fs_log, downloaded_videos, dl_delays,
      dl_outcome, dl_run, files_before, enhance_on, enh_i>>

pvVars ==
    <<pv_pc, pv_frames, pv_size, total_frames, chunk_size, pv_scale, frame_count,
      frames_processed, temp_dir, temp_exists, encoder_runs, same_path,
      output_exists, input_intact, output_written, encode_status, pv_result>>

cfVars == <<cf_pc, cf_op, cf_name, cf_ret, cf_edits>>

mnVars ==
    <<mn_pc, enhance_only, enhance, has_realesrgan, enhance_videos, super_resolution,
      sr_failed, enhance_dir, mn_calls, mn_status>>

bpVars ==
    <<bp_pc, bp_files, bp_outputs, bp_existing, file_types, recursive, skip_existing, video_files,
      bp_i, processed_videos, bp_calls, output_inside, bp_run, first_calls, first_outputs>>

rnVars == <<rn_pc, rn_dir, rn_before, rn_clips, rn_i, rn_prefix, rn_numbered>>

vars == <<configVars, fnVars, adVars, scVars, dlVars, pvVars, cfVars, mnVars, bpVars, rnVars>>

SeqsUpTo(S, n) == UNION {[1..k -> S] : k \in 0..n}

\* the components that a specification does not run stay in these states
FnIdle == fn_pc = "idle" /\ fn_url = <<>> /\ fn_title = <<>> /\ fn_filename = <<>>

AdIdle ==
    /\ ad_source = Source("", <<>>, 0, 0, 0, <<>>)
    /\ ad_pc = "idle"
    /\ clips = <<>>
    /\ current_page = 1
    /\ fetches = 0
    /\ ad_delays = 0
    /\ last_url = <<>>
    /\ feed = <<>>
    /\ feed_i = 0
    /\ ad_result = <<>>

ScIdle ==
    /\ sc_pc = "idle"
    /\ sc_i = 0
    /\ all_clips = <<>>
    /\ sc_log = <<>>
    /\ handed = <<>>

DlIdle ==
    /\ dl_pc = "idle"
    /\ dl_input = <<>>
    /\ dl_clips = <<>>
    /\ dl_i = 0
    /\ filename = <<>>
    /\ files = {}
    /\ fs_log = <<>>
    /\ downloaded_videos = <<>>
    /\ dl_delays = 0
    /\ dl_outcome = <<>>
    /\ dl_run = 1
    /\ files_before = {}
    /\ enhance_on = FALSE
    /\ enh_i = 0

PvIdle ==
    /\ pv_pc = "idle"
    /\ pv_frames = 0
    /\ pv_size = <<0, 0>>
    /\ total_frames = 0
    /\ chunk_size = 0
    /\ pv_scale = 0
    /\ frame_count = 0
    /\ frames_processed = 0
    /\ temp_dir = <<>>
    /\ temp_exists = FALSE
    /\ encoder_runs = <<>>
    /\ same_path = FALSE
    /\ output_exists = FALSE
    /\ input_intact = TRUE
    /\ output_written = FALSE
    /\ encode_status = "none"
    /\ pv_result = "none"

CfIdle ==
    cf_pc = "idle" /\ cf_op = "none" /\ cf_name = "" /\ cf_ret = "none" /\ cf_edits = 0

MnIdle ==
    /\ mn_pc = "idle"
    /\ enhance_only = "None"
    /\ enhance = FALSE
    /\ has_realesrgan = FALSE
    /\ enhance_videos = FALSE
    /\ super_resolution = "None"
    /\ sr_failed = FALSE
    /\ enhance_dir = "missing"
    /\ mn_calls = <<>>
    /\ mn_status = -1

BpIdle ==
    /\ bp_pc = "idle"
    /\ bp_files = {}
    /\ bp_outputs = {}
    /\ bp_existing = {}
    /\ file_types = <<>>
    /\ recursive = FALSE
    /\ skip_existing = FALSE
    /\ video_files = <<>>
    /\ bp_i = 0
    /\ processed_videos = <<>>
    /\ bp_calls = <<>>
    /\ output_inside = FALSE
    /\ bp_run = 0
    /\ first_calls = 0
    /\ first_outputs = {}

RnIdle ==
    /\ rn_pc = "idle"
    /\ rn_dir = <<>>
    /\ rn_before = <<>>
    /\ rn_clips = <<>>
    /\ rn_i = 0
    /\ rn_prefix = <<>>
    /\ rn_numbered = FALSE

\* the components a specification does not run
RestIdle == MnIdle /\ BpIdle /\ RnIdle

\* what the actions of one component leave alone
FnFrame == UNCHANGED <<configVars, adVars, scVars, dlVars, pvVars, cfVars, mnVars, bpVars, rnVars>>

AdFrame == UNCHANGED <<configVars, fnVars, scVars, dlVars, pvVars, cfVars, mnVars, bpVars, rnVars>>

ScFrame == UNCHANGED <<configVars, fnVars, adVars, dlVars, pvVars, cfVars, mnVars, bpVars, rnVars>>

DlFrame == UNCHANGED <<configVars, fnVars, adVars, scVars, pvVars, cfVars, mnVars, bpVars, rnVars, dl_input>>

CfFrame == UNCHANGED <<fnVars, adVars, dlVars, pvVars, mnVars, bpVars, rnVars>>

MnFrame == UNCHANGED <<configVars, fnVars, adVars, scVars, dlVars, pvVars, cfVars, bpVars, rnVars>>

BpFrame ==
    UNCHANGED <<configVars, fnVars, adVars, scVars, dlVars, pvVars, cfVars, mnVars,
                rnVars, bp_existing, output_inside>>

PvFrame == UNCHANGED <<configVars, fnVars, adVars, scVars, dlVars, cfVars, mnVars, bpVars, rnVars, output_exists>>

(***************************************************************************)
(* The source adapters, each run on its own.                               *)
(***************************************************************************)
\* the state at the entry of an adapter called with source
AdEnter(source) ==
    /\ ad_source = source
    /\ ad_pc = "start"
    /\ clips = <<>>
    /\ current_page = 1
    /\ fetches = 0
    /\ ad_delays = 0
    /\ last_url = <<>>
    /\ feed = <<>>
    /\ feed_i = 0
    /\ ad_result = <<>>

IsSakuga == ad_source.name = "sakugabooru"

IsReddit == ad_source.name = "animeclips_reddit"

IsYoutube == ad_source.name = "youtube_anime"

IsTenor == ad_source.name = "tenor_anime"

\* one iteration of the while loop of scrape_sakugabooru
SakugaPage ==
    /\ AdFrame
    /\ IsSakuga
    /\ ad_pc \in {"start", "loop"}
    /\ SakugaLoopTest(current_page, ad_source)
    /\ fetches' = fetches + 1
    /\ last_url' = SakugaPageUrl(ad_source, current_page)
    /\ UNCHANGED <<ad_source, feed, feed_i, ad_result>>
    /\ \/ \* requests.get raises (unreachable host)
          /\ ad_pc' = "raised"
          /\ UNCHANGED <<clips, current_page, ad_delays>>
       \/ \* response.status_code != 200
          /\ ad_pc' = "break"
          /\ UNCHANGED <<clips, current_page, ad_delays>>
       \/ \E elems \in SeqsUpTo(SakugaElems, MaxElems), has_next \in BOOLEAN :
            LET cl == SakugaElements(clips, elems, ad_source)
            IN  /\ clips' = cl
                /\ IF LimitReached(cl, download_limit) \/ ~has_next
                   THEN /\ ad_pc' = "break"
                        /\ UNCHANGED <<current_page, ad_delays>>
                   ELSE /\ ad_pc' = "loop"
                        /\ current_page' = current_page + 1
                        /\ ad_delays' = ad_delays + 1

\* return clips[:self.config["download_limit"]]
SakugaReturn ==
    /\ AdFrame
    /\ IsSakuga
    /\ \/ ad_pc = "break"
       \/ ad_pc \in {"start", "loop"} /\ ~SakugaLoopTest(current_page, ad_source)
    /\ ad_result' = Truncate(clips, download_limit)
    /\ ad_pc' = "returned"
    /\ UNCHANGED <<ad_source, clips, current_page, fetches, ad_delays, last_url, feed, feed_i>>

\* the request of scrape_reddit and the decoding of its response
RedditFetch ==
    /\ AdFrame
    /\ IsReddit
    /\ ad_pc = "start"
    /\ fetches' = fetches + 1
    /\ last_url' = ad_source.base_url
    /\ UNCHANGED <<ad_source, clips, current_page, ad_delays, feed_i>>
    /\ \/ \* requests.get raises, response.json() raises, or "data" is null
          /\ ad_pc' = "raised"
          /\ UNCHANGED <<feed, ad_result>>
       \/ \* response.status_code != 200: return clips
          /\ ad_pc' = "returned"
          /\ ad_result' = clips
          /\ UNCHANGED feed
       \/ \E posts \in SeqsUpTo(Posts, MaxPosts) :
            /\ feed' = posts
            /\ ad_pc' = "loop"
            /\ UNCHANGED ad_result

\* one iteration of the for loop of scrape_reddit
RedditPost ==
    /\ AdFrame
    /\ IsReddit
    /\ ad_pc = "loop"
    /\ feed_i < Len(RedditSlice(feed, ad_source))
    /\ feed_i' = feed_i + 1
    /\ UNCHANGED <<ad_source, current_page, fetches, ad_delays, last_url, feed, ad_result>>
    /\ LET post == feed[feed_i + 1]
       IN  IF RedditRaises(post)
           THEN ad_pc' = "raised" /\ UNCHANGED clips
           ELSE IF RedditSkips(post)
           THEN ad_pc' = "loop" /\ UNCHANGED clips
           ELSE LET cl == RedditAccept(clips, post, ad_source)
                IN  /\ clips' = cl
                    /\ ad_pc' = IF LimitReached(cl, download_limit)
                                THEN "break" ELSE "loop"

\* return clips
RedditReturn ==
    /\ AdFrame
    /\ IsReddit
    /\ \/ ad_pc = "break"
       \/ ad_pc = "loop" /\ feed_i >= Len(RedditSlice(feed, ad_source))
    /\ ad_result' = clips
    /\ ad_pc' = "returned"
    /\ UNCHANGED <<ad_source, clips, current_page, fetches, ad_delays, last_url, feed, feed_i>>

\* the search of scrape_youtube
YoutubeSearch ==
    /\ AdFrame
    /\ IsYoutube
    /\ ad_pc = "start"
    /\ UNCHANGED <<ad_source, clips, current_page, fetches, ad_delays, last_url,
                   feed_i>>
    /\ \/ \* the search raises: caught by the outer try
          /\ ad_pc' = "break"
          /\ UNCHANGED <<feed, ad_result>>
       \/ \* no search results: return clips
          /\ ad_pc' = "returned"
          /\ ad_result' = clips
          /\ UNCHANGED feed
       \/ \E entries \in SeqsUpTo(EntryKinds, MaxEntries) :
            /\ feed' = entries
            /\ ad_pc' = "loop"
            /\ UNCHANGED ad_result

\* one iteration of the for loop of scrape_youtube
YoutubeEntry ==
    /\ AdFrame
    /\ IsYoutube
    /\ ad_pc = "loop"
    /\ feed_i < Len(feed)
    /\ feed_i' = feed_i + 1
    /\ UNCHANGED <<ad_source, current_page, fetches, ad_delays, last_url, feed, ad_result>>
    /\ IF feed[feed_i + 1] # "video"
       THEN ad_pc' = "loop" /\ UNCHANGED clips
       ELSE \/ \* the detailed lookup raises: caught by the inner try
               ad_pc' = "loop" /\ UNCHANGED clips
            \/ \E duration \in Durations, id \in {"a", "b"} :
                 IF DurationRejected(duration, ad_source)
                 THEN ad_pc' = "loop" /\ UNCHANGED clips
                 ELSE LET cl == Append(clips,
                                    Ref("youtube", YoutubeUrl(id), <<"t">>, <<>>,
                                        <<>>, duration))
                      IN  /\ clips' = cl
                          /\ ad_pc' = IF LimitReached(cl, ad_source.max_results)
                                      THEN "break" ELSE "loop"

\* return clips[:source.get("max_results", 10)]
YoutubeReturn ==
    /\ AdFrame
    /\ IsYoutube
    /\ \/ ad_pc = "break"
       \/ ad_pc = "loop" /\ feed_i >= Len(feed)
    /\ ad_result' = Truncate(clips, ad_source.max_results)
    /\ ad_pc' = "returned"
    /\ UNCHANGED <<ad_source, clips, current_page, fetches, ad_delays, last_url, feed, feed_i>>

\* the request of scrape_tenor and the loop over the gallery elements
TenorFetch ==
    /\ AdFrame
    /\ IsTenor
    /\ ad_pc = "start"
    /\ fetches' = fetches + 1
    /\ last_url' = TenorUrl(ad_source)
    /\ UNCHANGED <<ad_source, current_page, ad_delays, feed, feed_i>>
    /\ \/ \* requests.get raises: caught by the outer try
          /\ ad_pc' = "break"
          /\ UNCHANGED <<clips, ad_result>>
       \/ \* response.status_code != 200: return clips
          /\ ad_pc' = "returned"
          /\ ad_result' = clips
          /\ UNCHANGED clips
       \/ \E elems \in SeqsUpTo(TenorElems, MaxElems) :
            /\ clips' = TenorElements(clips, elems, ad_source, download_limit)
            /\ ad_pc' = "break"
            /\ UNCHANGED ad_result

\* return clips[:self.config["download_limit"]]
TenorReturn ==
    /\ AdFrame
    /\ IsTenor
    /\ ad_pc = "break"
    /\ ad_result' = Truncate(clips, download_limit)
    /\ ad_pc' = "returned"
    /\ UNCHANGED <<ad_source, clips, current_page, fetches, ad_delays, last_url, feed, feed_i>>

AdNext ==
    \/ SakugaPage \/ SakugaReturn
    \/ RedditFetch \/ RedditPost \/ RedditReturn
    \/ YoutubeSearch \/ YoutubeEntry \/ YoutubeReturn
    \/ TenorFetch \/ TenorReturn

AdapterSources == SakugaSources \cup RedditSources \cup YoutubeSources \cup TenorSources

FetchInit ==
    /\ download_limit \in 1..MaxLimit
    /\ prefer_video = TRUE
    /\ sources = <<>>
    /\ \E source \in AdapterSources : AdEnter(source)
    /\ FnIdle /\ ScIdle /\ DlIdle /\ PvIdle /\ CfIdle /\ RestIdle

FetchNext == AdNext

\* every adapter run on its own, for every source entry and remote content
SpecFetch == FetchInit /\ [][FetchNext]_vars

\* the adapter always takes its next step (one synchronous thread)
SpecFetchFair == SpecFetch /\ WF_vars(FetchNext)

(***************************************************************************)
(* Filename derivation applied to every URL and title of a bounded set.    *)
(***************************************************************************)
PathToks == {"a", ".", "/", "!"}

FnHosts ==
    {<<"https", ":", "/", "/", "host">>,
     <<"https", ":", "/", "/", "youtube", ".", "com">>,
     <<"https", ":", "/", "/", "youtu", ".", "be">>}

FnPaths ==
    {<<>>, <<"/", "watch">>} \cup {<<"/">> \o p : p \in SeqsUpTo(PathToks, MaxPathLen)}

FnQueries == {<<>>, <<"?", "v", "=", "id">>, <<"?", "v", "=", "id", "&", "t">>}

FnUrls == {h \o p \o q : h \in FnHosts, p \in FnPaths, q \in FnQueries}

FnTitles == {<<>>, <<"t">>, <<"!">>, <<"t", " ", "!">>}

FnInit ==
    /\ fn_pc = "start"
    /\ fn_url \in FnUrls
    /\ fn_title \in FnTitles
    /\ fn_filename = <<>>
    /\ download_limit = 1 /\ prefer_video = TRUE /\ sources = <<>>
    /\ AdIdle /\ ScIdle /\ DlIdle /\ PvIdle /\ CfIdle /\ RestIdle

\* lines 390-413 of download_clips on one clip
FnDerive ==
    /\ FnFrame
    /\ fn_pc = "start"
    /\ fn_filename' = DeriveFilename(fn_url, fn_title)
    /\ fn_pc' = "done"
    /\ UNCHANGED <<fn_url, fn_title>>

FnNext == FnDerive

SpecFilename == FnInit /\ [][FnNext]_vars

(***************************************************************************)
(* scrape: the loop over config["sources"], each adapter call summarised   *)
(* by what it can do: return a list of references or raise.                *)
(***************************************************************************)
\* a html source added under a name scrape does not know
OtherSource == Source("other", SakugaBase, 1, 0, 0, <<>>)

ConfigSources ==
    {Source("sakugabooru", SakugaBase, 1, 0, 0, <<>>),
     Source("animeclips_reddit", RedditBase, 0, MaxOut, 0, <<>>),
     Source("youtube_anime", <<>>, 0, 0, MaxOut, <<"anime">>),
     Source("tenor_anime", TenorBase, 0, 0, 0, <<"anime">>),
     OtherSource}

\* the source lists with pairwise distinct names
SourceLists ==
    {l \in SeqsUpTo(ConfigSources, MaxSources) :
        \A i, j \in 1..Len(l) : i # j => l[i].name # l[j].name}

KnownNames == {"sakugabooru", "animeclips_reddit", "tenor_anime", "youtube_anime"}

\* the k-th reference an adapter returns for source
OutRef(source, k) ==
    Ref(IF source.name = "youtube_anime" THEN "youtube" ELSE source.name,
        <<"https", ":", "/", "/", "host", "/", NumTok(k), ".", "mp4">>,
        <<>>, <<>>, <<>>, NoneDur)

\* the longest list the adapter of source returns
OutCap(source, limit) ==
    IF source.name = "youtube_anime" THEN source.max_results ELSE limit

\* the lists the adapter of source can return
AdapterOutputs(source, limit) ==
    {[k \in 1..n |-> OutRef(source, k)] :
        n \in 0..(IF OutCap(source, limit) < MaxOut
                  THEN OutCap(source, limit) ELSE MaxOut)}

\* the keys the adapter chosen for source reads with source[...]; the
\* adapter raises KeyError when one is missing
RequiredKeys(source) ==
    IF source.name = "sakugabooru" THEN {"max_pages", "base_url"}
    ELSE IF source.name = "animeclips_reddit" THEN {"base_url", "max_items"}
    ELSE IF source.name = "tenor_anime" THEN {"base_url"}
    ELSE {}

HasAdapterKeys(source) == RequiredKeys(source) \subseteq DOMAIN source

\* elif source["name"] == "tenor_anime": if prefer_video: continue
TenorSkipped(source, prefer) == source.name = "tenor_anime" /\ prefer

MutAfterFailure(i, n) == n

\* the index after a source whose adapter raised: the except clause is
\* inside the for loop, so the next source follows
AfterFailure(i, n) == i + 1

\* all_clips[:self.config["download_limit"]]
LimitClips(cl, limit) == Take(cl, limit)

Logged(source, outcome, output) ==
    [name |-> source.name, outcome |-> outcome, output |-> output]

ScSource == sources[sc_i + 1]

ScInLoop == sc_pc = "loop" /\ sc_i < Len(sources)

\* the adapter of the source returns: all_clips.extend(clips)
ScrapeCall ==
    /\ ScFrame
    /\ ScInLoop
    /\ ScSource.name \in KnownNames
    /\ ~TenorSkipped(ScSource, prefer_video)
    /\ HasAdapterKeys(ScSource)
    /\ \E out \in AdapterOutputs(ScSource, download_limit) :
        /\ all_clips' = all_clips \o out
        /\ sc_log' = Append(sc_log, Logged(ScSource, "returned", out))
    /\ sc_i' = sc_i + 1
    /\ UNCHANGED <<sc_pc, handed>>

\* the adapter of the source raises: except Exception
ScrapeRaise ==
    /\ ScFrame
    /\ ScInLoop
    /\ ScSource.name \in KnownNames
    /\ ~TenorSkipped(ScSource, prefer_video)
    /\ sc_log' = Append(sc_log, Logged(ScSource, "raised", <<>>))
    /\ sc_i' = AfterFailure(sc_i, Len(sources))
    /\ UNCHANGED <<sc_pc, all_clips, handed>>

\* the tenor source when video is preferred: continue
ScrapeSkipTenor ==
    /\ ScFrame
    /\ ScInLoop
    /\ ScSource.name \in KnownNames
    /\ TenorSkipped(ScSource, prefer_video)
    /\ sc_log' = Append(sc_log, Logged(ScSource, "skipped", <<>>))
    /\ sc_i' = sc_i + 1
    /\ UNCHANGED <<sc_pc, all_clips, handed>>

\* else: print("Unknown source"); continue
ScrapeUnknown ==
    /\ ScFrame
    /\ ScInLoop
    /\ ScSource.name \notin KnownNames
    /\ sc_log' = Append(sc_log, Logged(ScSource, "unknown", <<>>))
    /\ sc_i' = sc_i + 1
    /\ UNCHANGED <<sc_pc, all_clips, handed>>

\* after the loop: truncate all_clips and call download_clips with it (the
\* call itself is the download_clips component, entered here)
ScrapeDownload ==
    /\ sc_pc = "loop"
    /\ sc_i >= Len(sources)
    /\ all_clips' = LimitClips(all_clips, download_limit)
    /\ handed' = all_clips'
    /\ sc_pc' = "download"
    /\ dl_clips' = all_clips'
    /\ dl_input' = all_clips'
    /\ dl_pc' = "start"
    /\ UNCHANGED <<sc_i, sc_log>>
    /\ UNCHANGED <<dl_i, filename, files, fs_log, downloaded_videos, dl_delays,
                   dl_outcome, dl_run, files_before, enhance_on, enh_i>>
    /\ UNCHANGED <<configVars, fnVars, adVars, pvVars, cfVars, mnVars, bpVars, rnVars>>

ScInit ==
    /\ download_limit \in 1..MaxLimit
    /\ prefer_video \in BOOLEAN
    /\ sources \in SourceLists
    /\ sc_pc = "loop"
    /\ sc_i = 0
    /\ all_clips = <<>>
    /\ sc_log = <<>>
    /\ handed = <<>>
    /\ FnIdle /\ AdIdle /\ DlIdle /\ PvIdle /\ CfIdle /\ RestIdle

ScNext ==
    \/ ScrapeCall
    \/ ScrapeRaise
    \/ ScrapeSkipTenor
    \/ ScrapeUnknown
    \/ ScrapeDownload

SpecScrape == ScInit /\ [][ScNext]_vars

(***************************************************************************)
(* Configuration edits: add_html_source and add_api_source of              *)
(* add_source.py and the --search insertion of main, followed by scrape on *)
(* the edited configuration.                                               *)
(***************************************************************************)
MaxEdits == 2

\* the record r with key k set to v when present holds
WithKey(r, k, v, present) == IF present THEN (k :> v) @@ r ELSE r

MutNameTaken(srcs, name) == FALSE

\* for source in config["sources"]: if source["name"] == name
NameTaken(srcs, name) == \E i \in 1..Len(srcs) : srcs[i].name = name

\* new_source of add_html_source; an argument that is None or empty is falsy
HtmlSource(name, base_url, clip_selector, link_selector, next_page_selector, page_param, max_pages) ==
    WithKey(
        WithKey([name |-> name, base_url |-> base_url,
                 clip_selector |-> clip_selector, link_selector |-> link_selector,
                 max_pages |-> max_pages],
                "next_page_selector", next_page_selector, next_page_selector # <<>>),
        "page_param", page_param, page_param # <<>>)

\* new_source of add_api_source
ApiSource(name, base_url, max_items) ==
    [name |-> name, base_url |-> base_url, is_api |-> TRUE, max_items |-> max_items]

\* youtube_source of main when the configuration has none
SearchSource(limit) ==
    [name |-> "youtube_anime", max_results |-> limit,
     min_duration |-> DefaultMinDuration, max_duration |-> DefaultMaxDuration]

\* the names given to add_html_source and add_api_source
EditNames == {"sakugabooru", "mysite"}

Selectors == {<<>>, <<"a", ".", "next">>}

PageParams == {<<>>, <<"page", "=", "{}">>}

SearchTerms == {<<"anime">>, <<"cat">>}

CfCanEdit == cf_pc = "edit" /\ cf_edits < MaxEdits

\* add_html_source(config, name, ...)
AddHtmlSource ==
    /\ CfFrame
    /\ CfCanEdit
    /\ \E name \in EditNames, nps \in Selectors, pp \in PageParams :
        /\ cf_name' = name
        /\ IF NameTaken(sources, name)
           THEN /\ cf_ret' = "false"
                /\ UNCHANGED sources
           ELSE /\ cf_ret' = "true"
                /\ sources' = Append(sources,
                       HtmlSource(name, SakugaBase, <<"article">>, <<"a">>, nps, pp,
                                  MaxPages))
    /\ cf_op' = "html"
    /\ cf_edits' = cf_edits + 1
    /\ UNCHANGED <<download_limit, prefer_video, cf_pc, scVars>>

\* add_api_source(config, name, base_url, max_items)
AddApiSource ==
    /\ CfFrame
    /\ CfCanEdit
    /\ \E name \in EditNames :
        /\ cf_name' = name
        /\ IF NameTaken(sources, name)
           THEN /\ cf_ret' = "false"
                /\ UNCHANGED sources
           ELSE /\ cf_ret' = "true"
                /\ sources' = Append(sources, ApiSource(name, RedditBase, MaxItems))
    /\ cf_op' = "api"
    /\ cf_edits' = cf_edits + 1
    /\ UNCHANGED <<download_limit, prefer_video, cf_pc, scVars>>

\* the index of the first source called youtube_anime, 0 when there is none
FirstYoutube(srcs) ==
    IF \E i \in 1..Len(srcs) : srcs[i].name = "youtube_anime"
    THEN CHOOSE i \in 1..Len(srcs) :
            /\ srcs[i].name = "youtube_anime"
            /\ \A j \in 1..(i - 1) : srcs[j].name # "youtube_anime"
    ELSE 0

\* main, lines 602-621: if args.search
SearchInsert ==
    /\ CfFrame
    /\ CfCanEdit
    /\ \E term \in SearchTerms :
        LET i == FirstYoutube(sources)
        IN  IF i > 0
            THEN sources' = [sources EXCEPT ![i] = ("search_term" :> term) @@ sources[i]]
            ELSE sources' = <<("search_term" :> term) @@ SearchSource(download_limit)>>
                                \o sources
    /\ cf_op' = "search"
    /\ cf_name' = ""
    /\ cf_ret' = "none"
    /\ cf_edits' = cf_edits + 1
    /\ UNCHANGED <<download_limit, prefer_video, cf_pc, scVars>>

\* scrape is called on the edited configuration
CfScrape ==
    /\ CfFrame
    /\ cf_pc = "edit"
    /\ cf_pc' = "scrape"
    /\ sc_pc' = "loop"
    /\ UNCHANGED <<configVars, cf_op, cf_name, cf_ret, cf_edits, sc_i, all_clips, sc_log, handed>>

\* the configurations the edits start from
StartConfigs == {l \in SourceLists : Len(l) <= 1}

CfInit ==
    /\ download_limit \in 1..MaxLimit
    /\ prefer_video \in BOOLEAN
    /\ sources \in StartConfigs
    /\ cf_pc = "edit"
    /\ cf_op = "none"
    /\ cf_name = ""
    /\ cf_ret = "none"
    /\ cf_edits = 0
    /\ FnIdle /\ AdIdle /\ ScIdle /\ DlIdle /\ PvIdle /\ RestIdle

CfNext ==
    \/ AddHtmlSource
    \/ AddApiSource
    \/ SearchInsert
    \/ CfScrape
    \/ ScrapeCall
    \/ ScrapeRaise
    \/ ScrapeSkipTenor
    \/ ScrapeUnknown
    \/ ScrapeDownload

\* configuration edits, then scrape on the result
SpecConfig == CfInit /\ [][CfNext]_vars

(***************************************************************************)
(* download_clips.                                                         *)
(***************************************************************************)
MutSortKey(clip) == 0

\* the sort key of line 382
SortKey(clip) ==
    IF EndsWith(Lower(clip.url), <<".", "mp4">>)
       \/ EndsWith(Lower(clip.url), <<".", "webm">>)
    THEN 0
    ELSE IF Contains(Lower(clip.url), <<"youtube", ".", "com">>) THEN 1 ELSE 2

\* list.sort(key=...), which is stable
SortClips(cl) ==
    SelectSeq(cl, LAMBDA c : SortKey(c) = 0)
        \o SelectSeq(cl, LAMBDA c : SortKey(c) = 1)
        \o SelectSeq(cl, LAMBDA c : SortKey(c) = 2)

\* url.lower().endswith(('.gif', '.jpg', '.jpeg', '.png'))
IsImageUrl(url) ==
    \E ext \in {"gif", "jpg", "jpeg", "png"} : EndsWith(Lower(url), <<".", ext>>)

\* pathlib: the name has a suffix when its last dot is neither first nor last
HasSuffix(name) == 1 < RFind(name, <<".">>) /\ RFind(name, <<".">>) < Len(name)

\* Path(name).suffix
PathSuffix(name) == IF HasSuffix(name) THEN Drop(name, RFind(name, <<".">>) - 1) ELSE <<>>

\* Path(name).stem
PathStem(name) == IF HasSuffix(name) THEN Take(name, RFind(name, <<".">>) - 1) ELSE name

\* output_path.suffix.lower() in ['.mp4', '.webm', '.mkv']
IsVideoFile(name) ==
    Lower(PathSuffix(name)) \in {<<".", "mp4">>, <<".", "webm">>, <<".", "mkv">>}

\* Path(video_path).stem + "_enhanced" + Path(video_path).suffix
EnhancedName(name) == PathStem(name) \o <<"_", "enhanced">> \o PathSuffix(name)

MutPathExists(name, fs) == FALSE

\* output_path.exists()
PathExists(name, fs) == name \in fs

\* i >= self.config["download_limit"] // 2
PastHalf(i, limit) == i >= limit \div 2

\* the file-system event of writing the file called name
Written(name, fs, run) ==
    [run |-> run, name |-> name,
     op |-> IF name \in fs THEN "overwrite" ELSE "create"]

\* what happened to one clip
Outcome(run, i, name, outcome, attempts, delayed) ==
    [run |-> run, i |-> i, name |-> name, outcome |-> outcome,
     attempts |-> attempts, delayed |-> delayed]

DlClip == dl_clips[dl_i + 1]

\* the references download_clips is called with
ClipPool ==
    {Ref("sakugabooru", <<"https", ":", "/", "/", "host", "/", "a", ".", "mp4">>,
         <<>>, <<>>, <<>>, NoneDur),
     Ref("sakugabooru", <<"https", ":", "/", "/", "cdn", "/", "a", ".", "mp4">>,
         <<>>, <<>>, <<>>, NoneDur),
     Ref("animeclips_reddit", <<"https", ":", "/", "/", "host", "/", "b", ".", "gif">>,
         <<"t">>, <<"a">>, <<>>, NoneDur),
     Ref("youtube", YoutubeUrl("id"), <<"t">>, <<>>, <<>>, DefaultMinDuration),
     Ref("sakugabooru", <<"https", ":", "/", "/", "host", "/", "clip", ".", "mov">>,
         <<>>, <<>>, <<>>, NoneDur)}

\* the filenames of the references of ClipPool, derived once
ClipFilenames == [c \in ClipPool |-> DeriveFilename(c.url, c.title)]

\* lines 390-415: the filename derived for a clip
FilenameOf(clip) ==
    IF clip \in ClipPool THEN ClipFilenames[clip]
    ELSE DeriveFilename(clip.url, clip.title)

\* the filename of the clip after the first i clips
FilenameAt(cl, i) == IF i < Len(cl) THEN FilenameOf(cl[i + 1]) ELSE <<>>

DlName == filename

DlInLoop == dl_pc = "loop" /\ dl_i < Len(dl_clips)

\* lines 374-386: the sort of the list
DlSort ==
    /\ DlFrame
    /\ dl_pc = "start"
    /\ dl_clips' = IF prefer_video THEN SortClips(dl_clips) ELSE dl_clips
    /\ files_before' = files
    /\ dl_pc' = "loop"
    /\ filename' = FilenameAt(IF prefer_video THEN SortClips(dl_clips) ELSE dl_clips, dl_i)
    /\ UNCHANGED <<dl_i, files, fs_log, downloaded_videos, dl_delays, dl_outcome,
                   dl_run, enhance_on, enh_i>>

\* lines 417-422: the file already exists
DlExists ==
    /\ DlFrame
    /\ DlInLoop
    /\ PathExists(DlName, files)
    /\ downloaded_videos' =
            IF IsVideoFile(DlName) THEN Append(downloaded_videos, DlName)
            ELSE downloaded_videos
    /\ dl_outcome' = Append(dl_outcome, Outcome(dl_run, dl_i, DlName, "exists", <<>>, FALSE))
    /\ dl_i' = dl_i + 1
    /\ filename' = FilenameAt(dl_clips, dl_i + 1)
    /\ UNCHANGED <<dl_pc, dl_clips, files, fs_log, dl_delays, dl_run, files_before,
                   enhance_on, enh_i>>

\* lines 427-431: an image past half of the limit when video is preferred
DlSkipImage ==
    /\ DlFrame
    /\ DlInLoop
    /\ ~PathExists(DlName, files)
    /\ IsImageUrl(DlClip.url)
    /\ prefer_video /\ PastHalf(dl_i, download_limit)
    /\ dl_outcome' = Append(dl_outcome, Outcome(dl_run, dl_i, DlName, "skipped", <<>>, FALSE))
    /\ dl_i' = dl_i + 1
    /\ filename' = FilenameAt(dl_clips, dl_i + 1)
    /\ UNCHANGED <<dl_pc, dl_clips, files, fs_log, downloaded_videos, dl_delays,
                   dl_run, files_before, enhance_on, enh_i>>

\* lines 433-457 and 475: the direct transfer of an image and its fallback
DlImage ==
    /\ DlFrame
    /\ DlInLoop
    /\ ~PathExists(DlName, files)
    /\ IsImageUrl(DlClip.url)
    /\ ~(prefer_video /\ PastHalf(dl_i, download_limit))
    /\ dl_i' = dl_i + 1
    /\ filename' = FilenameAt(dl_clips, dl_i + 1)
    /\ dl_delays' = dl_delays + 1
    /\ UNCHANGED <<dl_pc, dl_clips, downloaded_videos, dl_run, files_before,
                   enhance_on, enh_i>>
    /\ \/ \* status 200 and the body is written
          /\ files' = files \cup {DlName}
          /\ fs_log' = Append(fs_log, Written(DlName, files, dl_run))
          /\ dl_outcome' = Append(dl_outcome,
                Outcome(dl_run, dl_i, DlName, "success", <<"direct">>, TRUE))
       \/ \* another status: reported, no fallback
          /\ UNCHANGED <<files, fs_log>>
          /\ dl_outcome' = Append(dl_outcome,
                Outcome(dl_run, dl_i, DlName, "failure", <<"direct">>, TRUE))
       \/ \* requests.get or open raises; the fallback succeeds or raises
          \E ok \in BOOLEAN :
            /\ files' = IF ok THEN files \cup {DlName} ELSE files
            /\ fs_log' = IF ok THEN Append(fs_log, Written(DlName, files, dl_run))
                         ELSE fs_log
            /\ dl_outcome' = Append(dl_outcome,
                  Outcome(dl_run, dl_i, DlName, IF ok THEN "success" ELSE "failure",
                          <<"direct", "fallback">>, TRUE))
       \/ \* the body breaks off after the file was opened; the fallback
          \* succeeds (writing the same path) or raises
          \E ok \in BOOLEAN :
            /\ files' = files \cup {DlName}
            /\ fs_log' =
                 IF ok
                 THEN fs_log \o <<Written(DlName, files, dl_run),
                                  Written(DlName, files \cup {DlName}, dl_run)>>
                 ELSE Append(fs_log, Written(DlName, files, dl_run))
            /\ dl_outcome' = Append(dl_outcome,
                  Outcome(dl_run, dl_i, DlName, IF ok THEN "success" ELSE "failure",
                          <<"direct", "fallback">>, TRUE))

MutAfterClipFailure(i, n) == n

\* the index after a clip whose transfer raised: the except clause of line
\* 477 is inside the for loop, so the next clip follows
AfterClipFailure(i, n) == i + 1

\* lines 459-478: the transfer of any other URL by yt-dlp
DlVideo ==
    /\ DlFrame
    /\ DlInLoop
    /\ ~PathExists(DlName, files)
    /\ ~IsImageUrl(DlClip.url)
    /\ UNCHANGED <<dl_pc, dl_clips, dl_run, files_before, enhance_on, enh_i>>
    /\ \/ \* ydl.download returns
          /\ files' = files \cup {DlName}
          /\ fs_log' = Append(fs_log, Written(DlName, files, dl_run))
          /\ downloaded_videos' =
                IF IsVideoFile(DlName) THEN Append(downloaded_videos, DlName)
                ELSE downloaded_videos
          /\ dl_delays' = dl_delays + 1
          /\ dl_outcome' = Append(dl_outcome,
                Outcome(dl_run, dl_i, DlName, "success", <<"ytdlp">>, TRUE))
          /\ dl_i' = dl_i + 1
          /\ filename' = FilenameAt(dl_clips, dl_i + 1)
       \/ \* ydl.download raises: the outer except, past random_delay
          /\ UNCHANGED <<files, fs_log, downloaded_videos, dl_delays>>
          /\ dl_outcome' = Append(dl_outcome,
                Outcome(dl_run, dl_i, DlName, "failure", <<"ytdlp">>, FALSE))
          /\ dl_i' = AfterClipFailure(dl_i, Len(dl_clips))
          /\ filename' = FilenameAt(dl_clips, AfterClipFailure(dl_i, Len(dl_clips)))

\* line 481: after the for loop
DlLoopEnd ==
    /\ DlFrame
    /\ dl_pc = "loop"
    /\ dl_i >= Len(dl_clips)
    /\ dl_pc' = IF enhance_on /\ downloaded_videos # <<>> THEN "enhance" ELSE "done"
    /\ UNCHANGED filename
    /\ UNCHANGED <<dl_clips, dl_i, files, fs_log, downloaded_videos, dl_delays,
                   dl_outcome, dl_run, files_before, enhance_on, enh_i>>

DlVideoPath == downloaded_videos[enh_i + 1]

DlInEnhance == dl_pc = "enhance" /\ enh_i < Len(downloaded_videos)

\* lines 483-494: one downloaded video whose enhanced version exists
DlEnhanceExists ==
    /\ DlFrame
    /\ DlInEnhance
    /\ PathExists(EnhancedName(DlVideoPath), files)
    /\ enh_i' = enh_i + 1
    /\ UNCHANGED filename
    /\ UNCHANGED <<dl_pc, dl_clips, dl_i, files, fs_log, downloaded_videos,
                   dl_delays, dl_outcome, dl_run, files_before, enhance_on>>

\* lines 483-494: process_video on one downloaded video; it writes the
\* enhanced file, or the encoder fails (leaving a part of it or nothing),
\* or it raises
DlEnhance ==
    /\ DlFrame
    /\ DlInEnhance
    /\ ~PathExists(EnhancedName(DlVideoPath), files)
    /\ enh_i' = enh_i + 1
    /\ \E written \in BOOLEAN :
        /\ files' = IF written THEN files \cup {EnhancedName(DlVideoPath)} ELSE files
        /\ fs_log' = IF written
                     THEN Append(fs_log, Written(EnhancedName(DlVideoPath), files, dl_run))
                     ELSE fs_log
    /\ UNCHANGED filename
    /\ UNCHANGED <<dl_pc, dl_clips, dl_i, downloaded_videos, dl_delays, dl_outcome,
                   dl_run, files_before, enhance_on>>

\* the end of the enhance loop
DlEnhanceEnd ==
    /\ DlFrame
    /\ dl_pc = "enhance"
    /\ enh_i >= Len(downloaded_videos)
    /\ dl_pc' = "done"
    /\ UNCHANGED filename
    /\ UNCHANGED <<dl_clips, dl_i, files, fs_log, downloaded_videos, dl_delays,
                   dl_outcome, dl_run, files_before, enhance_on, enh_i>>

\* download_clips is called again with the same list and directory
DlAgain ==
    /\ DlFrame
    /\ dl_pc = "done"
    /\ dl_run = 1
    /\ dl_run' = 2
    /\ dl_pc' = "start"
    /\ dl_i' = 0
    /\ filename' = <<>>
    /\ enh_i' = 0
    /\ downloaded_videos' = <<>>
    /\ UNCHANGED <<dl_clips, files, fs_log, dl_delays, dl_outcome, files_before,
                   enhance_on>>

DlInit ==
    /\ download_limit \in 1..MaxLimit
    /\ prefer_video \in BOOLEAN
    /\ sources = <<>>
    /\ dl_pc = "start"
    /\ dl_input \in SeqsUpTo(ClipPool, MaxClips)
    /\ dl_clips = dl_input
    /\ dl_i = 0
    /\ filename = <<>>
    /\ files = {}
    /\ fs_log = <<>>
    /\ downloaded_videos = <<>>
    /\ dl_delays = 0
    /\ dl_outcome = <<>>
    /\ dl_run = 1
    /\ files_before = {}
    /\ enhance_on \in BOOLEAN
    /\ enh_i = 0
    /\ FnIdle /\ AdIdle /\ ScIdle /\ PvIdle /\ CfIdle /\ RestIdle

DlNext ==
    \/ DlSort
    \/ DlExists
    \/ DlSkipImage
    \/ DlImage
    \/ DlVideo
    \/ DlLoopEnd
    \/ DlEnhanceExists
    \/ DlEnhance
    \/ DlEnhanceEnd
    \/ DlAgain

\* download_clips called twice with the same list and directory
SpecDownload == DlInit /\ [][DlNext]_vars

\* the same, where download_clips keeps running until it returns
SpecDownloadFair == SpecDownload /\ WF_vars(DlNext)

(***************************************************************************)
(* SuperResolution.process_video.                                          *)
(***************************************************************************)
\* self.scale = max(min(scale, 4), 2)
MinScale == 2

MaxScale == 4

\* a frame of the frame store: its number in the file name and its size
Frame(n, size, upscaled) == [n |-> n, size |-> size, upscaled |-> upscaled]

\* process_image: the upscaled frame, or the input frame when enhance raises
ProcessImage(size, scale, ok) ==
    IF ok THEN <<size[1] * scale, size[2] * scale>> ELSE size

\* lines 186-188: the break at the end of an iteration
LeavesLoop(count, processed, chunk, total) ==
    (processed >= chunk \/ count >= total) /\ count >= total

MutReleased(exists) == exists

\* the end of the with tempfile.TemporaryDirectory() block, by a return or
\* by an exception: the directory is removed
Released(exists) == FALSE

\* lines 124-166: the paths, the capture, its properties, the frame store
PvOpen ==
    /\ PvFrame
    /\ pv_pc = "start"
    /\ temp_exists' = TRUE
    /\ frame_count' = 0
    /\ frames_processed' = 0
    /\ pv_pc' = "frames"
    /\ UNCHANGED <<pv_frames, pv_size, total_frames, chunk_size, pv_scale, temp_dir,
                   encoder_runs, same_path, input_intact, output_written,
                   encode_status, pv_result>>

\* lines 168-188: one decoded frame is processed and saved
PvFrameStep ==
    /\ PvFrame
    /\ pv_pc = "frames"
    /\ frame_count < pv_frames
    /\ \E ok \in BOOLEAN :
        temp_dir' = Append(temp_dir,
            Frame(frame_count, ProcessImage(pv_size, pv_scale, ok), ok))
    /\ frame_count' = frame_count + 1
    /\ frames_processed' = frames_processed + 1
    /\ pv_pc' = IF LeavesLoop(frame_count', frames_processed', chunk_size, total_frames)
                THEN "encode" ELSE "frames"
    /\ UNCHANGED <<pv_frames, pv_size, total_frames, chunk_size, pv_scale,
                   temp_exists, encoder_runs, same_path, input_intact,
                   output_written, encode_status, pv_result>>

\* lines 169-171: the decoder has no further frame
PvReadEnd ==
    /\ PvFrame
    /\ pv_pc = "frames"
    /\ frame_count >= pv_frames
    /\ pv_pc' = "encode"
    /\ UNCHANGED <<pv_frames, pv_size, total_frames, chunk_size, pv_scale,
                   frame_count, frames_processed, temp_dir, temp_exists,
                   encoder_runs, same_path, input_intact, output_written,
                   encode_status, pv_result>>

\* reading or saving a frame raises: the with block removes the frame store
PvFrameRaise ==
    /\ PvFrame
    /\ pv_pc = "frames"
    /\ frame_count < pv_frames
    /\ temp_exists' = Released(temp_exists)
    /\ pv_pc' = "raised"
    /\ UNCHANGED <<pv_frames, pv_size, total_frames, chunk_size, pv_scale,
                   frame_count, frames_processed, temp_dir, encoder_runs,
                   same_path, input_intact, output_written, encode_status,
                   pv_result>>

\* lines 193-231: ffmpeg -y on the frames of the store, then the store is
\* removed
PvEncode ==
    /\ PvFrame
    /\ pv_pc = "encode"
    /\ temp_exists' = Released(temp_exists)
    /\ UNCHANGED <<pv_frames, pv_size, total_frames, chunk_size, pv_scale,
                   frame_count, frames_processed, temp_dir, same_path>>
    /\ \/ \* exit status 0: return str(output_path)
          /\ temp_dir # <<>>
          /\ encoder_runs' = Append(encoder_runs, temp_dir)
          /\ encode_status' = "ok"
          /\ output_written' = TRUE
          /\ input_intact' = ~same_path
          /\ pv_result' = "output"
          /\ pv_pc' = "returned"
       \/ \* CalledProcessError: return str(input_path); the encoder may
          \* have written a part of output_path before it failed
          \E partial \in BOOLEAN :
            /\ encoder_runs' = Append(encoder_runs, temp_dir)
            /\ encode_status' = "failed"
            /\ output_written' = partial
            /\ input_intact' = ~(same_path /\ partial)
            /\ pv_result' = "input"
            /\ pv_pc' = "returned"
       \/ \* ffmpeg cannot be started: FileNotFoundError is not caught
          /\ encode_status' = "unstartable"
          /\ pv_pc' = "raised"
          /\ UNCHANGED <<encoder_runs, output_written, input_intact, pv_result>>

PvInit ==
    /\ download_limit = 1 /\ prefer_video = TRUE /\ sources = <<>>
    /\ pv_pc = "start"
    /\ pv_frames \in 0..MaxFrames
    /\ pv_size \in {<<1, 1>>, <<2, 1>>}
    /\ total_frames \in 0..(MaxFrames + 1)
    /\ chunk_size \in 1..MaxChunk
    /\ pv_scale \in MinScale..MaxScale
    /\ frame_count = 0
    /\ frames_processed = 0
    /\ temp_dir = <<>>
    /\ temp_exists = FALSE
    /\ encoder_runs = <<>>
    /\ same_path \in BOOLEAN
    /\ output_exists \in {e \in BOOLEAN : same_path => e}
    /\ input_intact = TRUE
    /\ output_written = FALSE
    /\ encode_status = "none"
    /\ pv_result = "none"
    /\ FnIdle /\ AdIdle /\ ScIdle /\ DlIdle /\ CfIdle /\ RestIdle

PvNext ==
    \/ PvOpen
    \/ PvFrameStep
    \/ PvReadEnd
    \/ PvFrameRaise
    \/ PvEncode

\* process_video on every bounded input
SpecProcessVideo == PvInit /\ [][PvNext]_vars

(***************************************************************************)
(* main of clip_scraper.py: the constructor, --enhance, --enhance-only and *)
(* the call of scrape.                                                     *)
(***************************************************************************)
\* the truth value of an optional string argument: None and "" are falsy
Truthy(arg) == arg \notin {"None", ""}

\* sys.exit(code) in clip_scraper.py, which does not import sys: the call
\* raises NameError and the interpreter ends with status 1
SysExit(code) == 1

\* lines 547 and 22-46: AnimeClipScraper(...)
MnConstruct ==
    /\ MnFrame
    /\ mn_pc = "start"
    /\ IF enhance_videos /\ has_realesrgan
       THEN \E ok \in BOOLEAN :
                /\ super_resolution' = IF ok THEN "ready" ELSE "None"
                /\ sr_failed' = ~ok
       ELSE super_resolution' = "None" /\ UNCHANGED sr_failed
    /\ mn_pc' = "args"
    /\ UNCHANGED <<enhance_only, enhance, has_realesrgan, enhance_videos, enhance_dir,
                   mn_calls, mn_status>>

\* lines 555-582: if args.enhance
MnEnhance ==
    /\ MnFrame
    /\ mn_pc = "args"
    /\ \/ /\ enhance /\ has_realesrgan
          /\ enhance_videos' = TRUE
          /\ \/ \* SuperResolution(...) returns
                /\ super_resolution' = "ready"
                /\ sr_failed' = FALSE
                /\ mn_pc' = "mode"
                /\ UNCHANGED mn_status
             \/ \* SuperResolution(...) raises: sys.exit(1)
                /\ sr_failed' = TRUE
                /\ mn_pc' = "exited"
                /\ mn_status' = SysExit(1)
                /\ UNCHANGED super_resolution
       \/ /\ enhance /\ ~has_realesrgan
          /\ enhance_videos' = TRUE
          /\ mn_pc' = "mode"
          /\ UNCHANGED <<super_resolution, sr_failed, mn_status>>
       \/ /\ ~enhance
          /\ mn_pc' = "mode"
          /\ UNCHANGED <<enhance_videos, super_resolution, sr_failed, mn_status>>
    /\ UNCHANGED <<enhance_only, enhance, has_realesrgan, enhance_dir, mn_calls>>

\* not HAS_REALESRGAN or not scraper.super_resolution
Unavailable(has, sr) == ~has \/ sr = "None"

\* lines 584-600: if args.enhance_only
MnEnhanceOnly ==
    /\ MnFrame
    /\ mn_pc = "mode"
    /\ Truthy(enhance_only)
    /\ IF Unavailable(has_realesrgan, super_resolution)
       THEN mn_status' = SysExit(1) /\ UNCHANGED mn_calls
       ELSE IF enhance_dir # "dir"
       THEN mn_status' = SysExit(1) /\ UNCHANGED mn_calls
       ELSE mn_status' = SysExit(0) /\ mn_calls' = Append(mn_calls, "batch")
    /\ mn_pc' = "exited"
    /\ UNCHANGED <<enhance_only, enhance, has_realesrgan, enhance_videos,
                   super_resolution, sr_failed, enhance_dir>>

\* lines 602-623: the source adapters and download_clips run inside scrape
MnScrape ==
    /\ MnFrame
    /\ mn_pc = "mode"
    /\ ~Truthy(enhance_only)
    /\ mn_calls' = Append(mn_calls, "scrape")
    /\ mn_status' = 0
    /\ mn_pc' = "exited"
    /\ UNCHANGED <<enhance_only, enhance, has_realesrgan, enhance_videos,
                   super_resolution, sr_failed, enhance_dir>>

MnInit ==
    /\ download_limit = 1 /\ prefer_video = TRUE /\ sources = <<>>
    /\ mn_pc = "start"
    /\ enhance_only \in {"None", "", "clips"}
    /\ enhance \in BOOLEAN
    /\ has_realesrgan \in BOOLEAN
    /\ enhance_videos \in BOOLEAN
    /\ super_resolution = "None"
    /\ sr_failed = FALSE
    /\ enhance_dir \in IF enhance_only = "" THEN {"dir"} ELSE {"missing", "file", "dir"}
    /\ mn_calls = <<>>
    /\ mn_status = -1
    /\ FnIdle /\ AdIdle /\ ScIdle /\ DlIdle /\ PvIdle /\ CfIdle /\ BpIdle /\ RnIdle

MnNext ==
    \/ MnConstruct
    \/ MnEnhance
    \/ MnEnhanceOnly
    \/ MnScrape

\* one run of main on every combination of the options
SpecMain == MnInit /\ [][MnNext]_vars

(***************************************************************************)
(* SuperResolution.batch_process_directory.                                *)
(***************************************************************************)
\* the files an input directory may hold, as paths relative to it
DirFiles ==
    {<<"a", ".", "mp4">>, <<"b", ".", "mkv">>, <<"c", ".", "txt">>,
     <<"sub", "/", "d", ".", "mp4">>}

\* the file_types arguments
FileTypes == {<<<<".", "mp4">>, <<".", "mkv">>>>, <<<<".", "mkv">>>>}

MutGlobMatch(path, ext, rec) == TRUE

\* input_dir.glob('*' + ext), or '**/*' + ext when recursive
GlobMatch(path, ext, rec) ==
    /\ EndsWith(path, ext)
    /\ Len(path) > Len(ext)
    /\ rec \/ ~Contains(path, <<"/">>)

\* the orders in which glob may yield the files of S
GlobOrders(S) ==
    {o \in [1..Cardinality(S) -> S] : \A i, j \in 1..Cardinality(S) : i # j => o[i] # o[j]}

\* lines 257-264: video_files.extend(list(glob)) for each ext of types
RECURSIVE GlobAll(_, _, _)
GlobAll(dir, types, rec) ==
    IF types = <<>> THEN {<<>>}
    ELSE {o \o rest :
            o \in GlobOrders({f \in dir : GlobMatch(f, Head(types), rec)}),
            rest \in GlobAll(dir, Tail(types), rec)}

\* lines 249-252: the output directory, as a path
OutputDir ==
    IF output_inside THEN <<"input_dir", "/", "upscaled">> ELSE <<"output_dir">>

\* an entry of processed_videos: the path under output_dir or under input_dir
OutputPath(rel) == OutputDir \o <<"/">> \o rel

\* the files under input_dir: the outputs too when output_dir is inside it
InputTree ==
    bp_files \cup (IF output_inside THEN {<<"upscaled", "/">> \o r : r \in bp_outputs}
                  ELSE {})

InputPath(rel) == <<"input_dir", "/">> \o rel

\* a call of process_video on a file and how it ended
Called(file, outcome) == [file |-> file, outcome |-> outcome]

BpFile == video_files[bp_i + 1]

BpInLoop == bp_pc = "loop" /\ bp_i < Len(video_files)

\* lines 247-268: the output directory and the list of video files
BpGlob ==
    /\ BpFrame
    /\ bp_pc = "start"
    /\ video_files' \in GlobAll(InputTree, file_types, recursive)
    /\ bp_pc' = "loop"
    /\ UNCHANGED <<bp_files, bp_outputs, file_types, recursive, skip_existing, bp_i,
                   processed_videos, bp_calls, bp_run, first_calls, first_outputs>>

\* lines 278-282: the output exists and skip_existing is set
BpSkip ==
    /\ BpFrame
    /\ BpInLoop
    /\ skip_existing /\ BpFile \in bp_outputs
    /\ processed_videos' = Append(processed_videos, OutputPath(BpFile))
    /\ bp_i' = bp_i + 1
    /\ UNCHANGED <<bp_pc, bp_files, bp_outputs, file_types, recursive, skip_existing,
                   video_files, bp_calls, bp_run, first_calls, first_outputs>>

\* lines 284-292: process_video returns the output path, returns the input
\* path (the encoder failed), or raises
BpProcess ==
    /\ BpFrame
    /\ BpInLoop
    /\ ~(skip_existing /\ BpFile \in bp_outputs)
    /\ \/ /\ processed_videos' = Append(processed_videos, OutputPath(BpFile))
          /\ bp_outputs' = bp_outputs \cup {BpFile}
          /\ bp_calls' = Append(bp_calls, Called(BpFile, "output"))
       \/ /\ processed_videos' = Append(processed_videos, InputPath(BpFile))
          /\ bp_calls' = Append(bp_calls, Called(BpFile, "input"))
          /\ UNCHANGED bp_outputs
       \/ /\ bp_calls' = Append(bp_calls, Called(BpFile, "raised"))
          /\ UNCHANGED <<processed_videos, bp_outputs>>
    /\ bp_i' = bp_i + 1
    /\ UNCHANGED <<bp_pc, bp_files, file_types, recursive, skip_existing, video_files,
                   bp_run, first_calls, first_outputs>>

\* line 294: return processed_videos
BpReturn ==
    /\ BpFrame
    /\ bp_pc = "loop"
    /\ bp_i >= Len(video_files)
    /\ bp_pc' = "returned"
    /\ UNCHANGED <<bp_files, bp_outputs, file_types, recursive, skip_existing,
                   video_files, bp_i, processed_videos, bp_calls, bp_run, first_calls,
                   first_outputs>>

\* batch_process_directory is called again with the same arguments
BpAgain ==
    /\ BpFrame
    /\ bp_pc = "returned"
    /\ bp_run = 1
    /\ bp_run' = 2
    /\ bp_pc' = "start"
    /\ video_files' = <<>>
    /\ bp_i' = 0
    /\ processed_videos' = <<>>
    /\ first_calls' = Len(bp_calls)
    /\ first_outputs' = bp_outputs
    /\ UNCHANGED <<bp_files, bp_outputs, file_types, recursive, skip_existing, bp_calls>>

BpInit ==
    /\ download_limit = 1 /\ prefer_video = TRUE /\ sources = <<>>
    /\ bp_pc = "start"
    /\ bp_files \in SUBSET DirFiles
    /\ bp_outputs \in SUBSET bp_files
    /\ bp_existing = bp_outputs
    /\ file_types \in FileTypes
    /\ recursive \in BOOLEAN
    /\ skip_existing \in BOOLEAN
    /\ video_files = <<>>
    /\ bp_i = 0
    /\ processed_videos = <<>>
    /\ bp_calls = <<>>
    /\ output_inside = FALSE
    /\ bp_run = 1
    /\ first_calls = 0
    /\ first_outputs = {}
    /\ FnIdle /\ AdIdle /\ ScIdle /\ DlIdle /\ PvIdle /\ CfIdle /\ MnIdle /\ RnIdle

BpNext ==
    \/ BpGlob
    \/ BpSkip
    \/ BpProcess
    \/ BpReturn

\* batch_process_directory on every bounded directory
SpecBatch == BpInit /\ [][BpNext]_vars

\* the largest number of files in the directory that is processed twice
MaxBatchFiles == 2

\* a directory without outputs yet; output_dir is given or left to its default
BpTwiceInit ==
    /\ download_limit = 1 /\ prefer_video = TRUE /\ sources = <<>>
    /\ bp_pc = "start"
    /\ bp_files \in {S \in SUBSET DirFiles : Cardinality(S) <= MaxBatchFiles}
    /\ bp_outputs = {}
    /\ bp_existing = {}
    /\ file_types \in FileTypes
    /\ recursive \in BOOLEAN
    /\ skip_existing \in BOOLEAN
    /\ video_files = <<>>
    /\ bp_i = 0
    /\ processed_videos = <<>>
    /\ bp_calls = <<>>
    /\ output_inside \in BOOLEAN
    /\ bp_run = 1
    /\ first_calls = 0
    /\ first_outputs = {}
    /\ FnIdle /\ AdIdle /\ ScIdle /\ DlIdle /\ PvIdle /\ CfIdle /\ MnIdle /\ RnIdle

BpTwiceNext ==
    \/ BpGlob
    \/ BpSkip
    \/ BpProcess
    \/ BpReturn
    \/ BpAgain

\* batch_process_directory called twice on the same directory
SpecBatchTwice == BpTwiceInit /\ [][BpTwiceNext]_vars

(***************************************************************************)
(* organize_clips.py: list_clips and rename_clips.                         *)
(***************************************************************************)
\* the largest number of files in the directory
MaxDirFiles == 3

\* the paths a directory may hold, relative to it
RenameNames ==
    {<<"0", ".", "mp4">>, <<"0", "0", "1", ".", "mp4">>, <<"0", "0", "2", ".", "mp4">>,
     <<"a", ".", "mp4">>, <<"p", "_", "a", ".", "mp4">>, <<"a", ".", "gif">>,
     <<"sub", "/", "0", "0", "1", ".", "mp4">>, <<"a", ".", "txt">>}

\* where a token stands among the others when paths are compared: paths
\* compare part by part, so the separator stands before every character
TokRank(t) ==
    CASE t = "/" -> 0 [] t = "." -> 1 [] t = "0" -> 2 [] t = "1" -> 3
      [] t = "2" -> 4 [] t = "3" -> 5 [] t = "_" -> 6 [] t = "a" -> 7
      [] t = "gif" -> 8 [] t = "mp4" -> 9 [] t = "p" -> 10 [] t = "sub" -> 11
      [] t = "txt" -> 12 [] OTHER -> 13

\* a < b for two paths
RECURSIVE PathLess(_, _)
PathLess(a, b) ==
    IF a = <<>> THEN b # <<>>
    ELSE IF b = <<>> THEN FALSE
    ELSE IF Head(a) = Head(b) THEN PathLess(Tail(a), Tail(b))
    ELSE TokRank(Head(a)) < TokRank(Head(b))

\* glob('**/*' + ext) for ext in ['.mp4', '.webm', '.gif']
IsClipFile(path) ==
    \E ext \in {"mp4", "webm", "gif"} :
        EndsWith(Basename(path), <<".", ext>>)

\* sorted(clips)
SortedPaths(S) ==
    CHOOSE o \in GlobOrders(S) : \A i, j \in 1..Cardinality(S) : i < j => PathLess(o[i], o[j])

\* list_clips(directory)
ListClips(dir) == SortedPaths({f \in DOMAIN dir : IsClipFile(f)})

\* f"{n:03d}"
Num3(n) == <<"0", "0", NumTok(n)>>

\* clip.parent, with its separator
ParentOf(path) == Take(path, RFind(path, <<"/">>))

\* lines 141-148: new_name; <<>> when there is nothing to rename
NewName(i, clip, prefix, numbered) ==
    IF prefix # <<>> /\ numbered
    THEN prefix \o <<"_">> \o Num3(i + 1) \o PathSuffix(Basename(clip))
    ELSE IF prefix # <<>>
    THEN prefix \o <<"_">> \o PathStem(Basename(clip)) \o PathSuffix(Basename(clip))
    ELSE IF numbered THEN Num3(i + 1) \o PathSuffix(Basename(clip))
    ELSE <<>>

\* clip.parent / new_name
NewPath(i, clip, prefix, numbered) == ParentOf(clip) \o NewName(i, clip, prefix, numbered)

\* os.rename(old, new) where it replaces an existing file silently
Renamed(dir, old, new) ==
    [n \in (DOMAIN dir \ {old}) \cup {new} |-> IF n = new THEN dir[old] ELSE dir[n]]

RnFrame == UNCHANGED <<configVars, fnVars, adVars, scVars, dlVars, pvVars, cfVars, mnVars, bpVars>>

RnClip == rn_clips[rn_i + 1]

RnInLoop == rn_pc = "loop" /\ rn_i < Len(rn_clips)

\* clips = list_clips(base_dir) and the call of rename_clips
RnList ==
    /\ RnFrame
    /\ rn_pc = "start"
    /\ rn_clips' = ListClips(rn_dir)
    /\ rn_pc' = "loop"
    /\ UNCHANGED <<rn_dir, rn_before, rn_i, rn_prefix, rn_numbered>>

\* lines 147-148: neither prefix nor numbered
RnContinue ==
    /\ RnFrame
    /\ RnInLoop
    /\ rn_prefix = <<>> /\ ~rn_numbered
    /\ rn_i' = rn_i + 1
    /\ UNCHANGED <<rn_pc, rn_dir, rn_before, rn_clips, rn_prefix, rn_numbered>>

\* lines 150-154: clip.rename(new_path); where new_path names another file
\* the platform replaces that file, or raises FileExistsError
RnRename ==
    /\ RnFrame
    /\ RnInLoop
    /\ rn_prefix # <<>> \/ rn_numbered
    /\ UNCHANGED <<rn_before, rn_clips, rn_prefix, rn_numbered>>
    /\ \/ /\ rn_dir' = Renamed(rn_dir, RnClip, NewPath(rn_i, RnClip, rn_prefix, rn_numbered))
          /\ rn_i' = rn_i + 1
          /\ UNCHANGED rn_pc
       \/ /\ NewPath(rn_i, RnClip, rn_prefix, rn_numbered) \in DOMAIN rn_dir \ {RnClip}
          /\ rn_pc' = "raised"
          /\ UNCHANGED <<rn_dir, rn_i>>

\* the end of the for loop
RnReturn ==
    /\ RnFrame
    /\ rn_pc = "loop"
    /\ rn_i >= Len(rn_clips)
    /\ rn_pc' = "returned"
    /\ UNCHANGED <<rn_dir, rn_before, rn_clips, rn_i, rn_prefix, rn_numbered>>

\* every file holds its own content, named after its path
RnInit ==
    /\ download_limit = 1 /\ prefer_video = TRUE /\ sources = <<>>
    /\ rn_pc = "start"
    /\ \E S \in {T \in SUBSET RenameNames : Cardinality(T) <= MaxDirFiles} :
            rn_dir = [n \in S |-> n]
    /\ rn_before = rn_dir
    /\ rn_clips = <<>>
    /\ rn_i = 0
    /\ rn_prefix \in {<<>>, <<"p">>}
    /\ rn_numbered \in BOOLEAN
    /\ FnIdle /\ AdIdle /\ ScIdle /\ DlIdle /\ PvIdle /\ CfIdle /\ MnIdle /\ BpIdle

RnNext ==
    \/ RnList
    \/ RnContinue
    \/ RnRename
    \/ RnReturn

\* the rename action of organize_clips.py on every bounded directory
SpecRename == RnInit /\ [][RnNext]_vars

(***************************************************************************)
(* Claims.                                                                 *)
(***************************************************************************)
AdReturned == ad_pc = "returned"

\* C1: whatever the remote listing holds, the sequence an adapter returns is
\* no longer than its cap: download_limit for scrape_sakugabooru and
\* scrape_tenor, max_items and download_limit for scrape_reddit, max_results
\* for scrape_youtube.
C1_FetchWithinCap ==
    AdReturned =>
        /\ IsSakuga => Len(ad_result) <= download_limit
        /\ IsTenor => Len(ad_result) <= download_limit
        /\ IsReddit => Len(ad_result) <= ad_source.max_items
                       /\ Len(ad_result) <= download_limit
        /\ IsYoutube => Len(ad_result) <= ad_source.max_results

\* scrape_sakugabooru has returned after a listing that held more qualifying
\* elements than download_limit
C1_Witness ==
    /\ AdReturned
    /\ IsSakuga
    /\ Len(clips) > download_limit
    /\ Len(ad_result) = download_limit

AdDone == ad_pc \in {"returned", "raised"}

\* C2: scrape_sakugabooru ends, and it makes at most max_pages requests,
\* also when every page has a next-page element and the limit is never
\* reached.
C2_PaginationTerminates ==
    /\ [](IsSakuga => fetches <= ad_source.max_pages)
    /\ (IsSakuga => <>AdDone)

\* every page had a next-page element and the limit was not reached: the
\* adapter returned after max_pages requests
C2_Witness ==
    /\ AdReturned
    /\ IsSakuga
    /\ fetches = ad_source.max_pages
    /\ ad_source.max_pages > 1
    /\ current_page > ad_source.max_pages
    /\ Len(clips) < download_limit

\* C7: in scrape_sakugabooru, once the clips collected after a page are at
\* least download_limit, no further page is requested, and exactly
\* download_limit references are returned.
C7_StopAtLimit ==
    /\ [][IsSakuga /\ Len(clips) >= download_limit => fetches' = fetches]_vars
    /\ [](AdReturned /\ IsSakuga /\ Len(clips) >= download_limit
            => ad_result = Take(clips, download_limit)
               /\ Len(ad_result) = download_limit)

\* max_pages is 2, page 1 held more qualifying elements than download_limit,
\* and the adapter returned after one request
C7_Witness ==
    /\ AdReturned
    /\ IsSakuga
    /\ ad_source.max_pages = 2
    /\ fetches = 1
    /\ Len(clips) > download_limit
    /\ Len(ad_result) = download_limit

InResult(url) == \E k \in 1..Len(ad_result) : ad_result[k].url = url

\* C8 as stated: every gallery entry and entry without URL is excluded,
\* every entry whose URL is a direct media file is returned, and every
\* v.redd.it entry that declares a fallback URL is returned with that URL.
C8_Original ==
    AdReturned /\ IsReddit =>
        \A i \in 1..Len(feed) :
            /\ feed[i].url # <<>> /\ IsGallery(feed[i].url) => ~InResult(feed[i].url)
            /\ IsDirectMedia(feed[i].url) => InResult(feed[i].url)
            /\ IsVReddit(feed[i].url) /\ feed[i].secure_media = "video"
               /\ feed[i].fallback_url # <<>> => InResult(feed[i].fallback_url)

\* the url an entry stands for: its declared fallback for a v.redd.it entry
FeedUrl(post) ==
    IF IsVReddit(post.url) /\ post.secure_media = "video" /\ post.fallback_url # <<>>
    THEN post.fallback_url
    ELSE post.url

FeedAccepts(post) ==
    /\ post.url # <<>>
    /\ ~IsGallery(post.url)
    /\ \E ext \in {"mp4", "gif", "webm", "jpg", "jpeg", "png"} :
            EndsWith(FeedUrl(post), <<".", ext>>)

\* the references of the accepted entries of posts, in order
RECURSIVE FeedRefs(_, _)
FeedRefs(posts, name) ==
    IF posts = <<>> THEN <<>>
    ELSE (IF FeedAccepts(Head(posts))
          THEN <<Ref(name, FeedUrl(Head(posts)), Head(posts).title,
                     Head(posts).author, <<>>, NoneDur)>>
          ELSE <<>>) \o FeedRefs(Tail(posts), name)

GalleryDirectIndirect ==
    <<Post("ok", <<"https", ":", "/", "/", "host", "/", "gallery", "/", "a">>, "absent", <<>>),
      Post("ok", <<"https", ":", "/", "/", "host", "/", "a", ".", "mp4">>, "absent", <<>>),
      Post("ok", VReddit, "video", VReddit \o <<"/", "x", ".", "mp4">>)>>

\* C8, amended: scrape_reddit returns, in feed order, the first download_limit
\* of the entries among the first max_items that have a URL, are no gallery
\* link and whose resolved URL (the declared fallback of a v.redd.it entry,
\* else the entry's URL) ends in a recognised media extension; a feed of one
\* gallery entry, one direct .mp4 and one v.redd.it entry with a fallback
\* ending in .mp4 gives exactly 2 references when the caps allow 2.
C8_Amended ==
    AdReturned /\ IsReddit =>
        /\ ad_result = Take(FeedRefs(Take(feed, ad_source.max_items), ad_source.name),
                            download_limit)
        /\ feed = GalleryDirectIndirect /\ ad_source.max_items >= 3
           /\ download_limit >= 2
           => /\ Len(ad_result) = 2
              /\ ad_result[2].url = VReddit \o <<"/", "x", ".", "mp4">>

\* the feed of the three entries has been handled
C8_Witness ==
    /\ AdReturned
    /\ IsReddit
    /\ feed = GalleryDirectIndirect
    /\ Len(ad_result) = 2

\* C9: no error escapes an adapter.
C9_NoErrorEscapes == ad_pc # "raised"

\* the file-system events of the second invocation
SecondRunEvents == {k \in 1..Len(fs_log) : fs_log[k].run = 2}

ClipNames == {FilenameOf(dl_clips[k]) : k \in 1..Len(dl_clips)}

TargetNames == ClipNames \cup {EnhancedName(n) : n \in ClipNames}

UpscaledFrames(n) ==
    [k \in 1..n |-> Frame(k - 1, <<pv_size[1] * pv_scale, pv_size[2] * pv_scale>>, TRUE)]

AllUpscaled == \A k \in 1..Len(temp_dir) : temp_dir[k].upscaled

\* C5: when every frame transform succeeds, the encoder is run once, after
\* the last frame was saved, on exactly the N decoded frames, numbered
\* 0..N-1 and each of size (W*s, H*s), whatever chunk_size and the reported
\* total frame count are.
C5_EncoderGetsAllFrames ==
    encoder_runs # <<>> /\ AllUpscaled =>
        /\ Len(encoder_runs) = 1
        /\ encoder_runs[1] = UpscaledFrames(pv_frames)

\* the encoder ran on a video whose container reports fewer frames than
\* the decoder yields
C5_Witness ==
    /\ encoder_runs # <<>>
    /\ AllUpscaled
    /\ pv_frames > 1
    /\ total_frames < pv_frames

\* C6: when the encoding step fails in any way, process_video returns the
\* input path, does not raise, and the input file is unmodified.
C6_EncodeFailureReturnsInput ==
    encode_status \in {"failed", "unstartable"} =>
        /\ pv_pc = "returned"
        /\ pv_result = "input"
        /\ input_intact

\* the encoder could not be started
C6_Witness == encode_status = "unstartable"

\* the adapter scrape calls for a source of this name (lines 502-513)
AdapterOf(name) ==
    IF name = "sakugabooru" THEN "scrape_sakugabooru"
    ELSE IF name = "animeclips_reddit" THEN "scrape_reddit"
    ELSE IF name = "tenor_anime" THEN "scrape_tenor"
    ELSE IF name = "youtube_anime" THEN "scrape_youtube"
    ELSE "none"

\* the shape add_html_source writes
IsHtmlSource(source) ==
    {"base_url", "clip_selector", "link_selector", "max_pages"} \subseteq DOMAIN source

\* the shape add_api_source writes
IsApiSource(source) ==
    /\ {"base_url", "is_api", "max_items"} \subseteq DOMAIN source
    /\ source.is_api

\* the i-th source was handed to one of the adapters
Dispatched(i, adapters) ==
    /\ sc_log[i].outcome \in {"returned", "raised"}
    /\ AdapterOf(sc_log[i].name) \in adapters

\* C11: the adapter is chosen from the declared shape of the source, never
\* from its name: every source of the HTML shape is handed to an HTML
\* adapter and every source of the API shape to the JSON feed adapter, under
\* whatever unique name it was added.
C11_DispatchByKind ==
    \A i \in 1..Len(sc_log) :
        /\ IsHtmlSource(sources[i]) =>
                Dispatched(i, {"scrape_sakugabooru", "scrape_tenor"})
        /\ IsApiSource(sources[i]) => Dispatched(i, {"scrape_reddit"})

\* scrape met a source that add_html_source had added under a new name
C11_Witness ==
    /\ cf_pc = "scrape"
    /\ \E i \in 1..Len(sc_log) :
        /\ IsHtmlSource(sources[i])
        /\ sources[i].name = "mysite"

Distinct(srcs) ==
    \A i, j \in 1..Len(srcs) : i # j => srcs[i].name # srcs[j].name

\* C17: the source names stay pairwise distinct under add_html_source,
\* add_api_source and the --search insertion; an add whose name is present
\* returns False and changes no key of the configuration, and a successful
\* add appends exactly one source, of that name, and changes nothing else.
C17_NamesStayUnique ==
    /\ [](Distinct(sources))
    /\ [][cf_edits' # cf_edits /\ cf_op' \in {"html", "api"} =>
            IF \E i \in 1..Len(sources) : sources[i].name = cf_name'
            THEN cf_ret' = "false" /\ UNCHANGED configVars
            ELSE /\ cf_ret' = "true"
                 /\ Len(sources') = Len(sources) + 1
                 /\ SubSeq(sources', 1, Len(sources)) = sources
                 /\ sources'[Len(sources')].name = cf_name'
                 /\ UNCHANGED <<download_limit, prefer_video>>]_vars

\* an add was refused after two edits, one of them the --search insertion
C17_Witness ==
    /\ cf_edits = MaxEdits
    /\ cf_ret = "false"
    /\ \E i \in 1..Len(sources) :
        sources[i].name = "youtube_anime" /\ sources[i].search_term = <<"cat">>

\* the outcomes of the invocation run, in the order they were recorded
RunOutcomes(run) == SelectSeq(dl_outcome, LAMBDA o : o.run = run)

TerminalOutcomes == {"success", "skipped", "exists", "failure"}

\* C12: download_clips visits every reference exactly once, in list order,
\* and each reaches a terminal outcome; a failed transfer (primary or
\* fallback) does not keep a later reference from being attempted, a failed
\* enhancement does not keep a later video from being enhanced, and the
\* invocation ends.
C12_EveryClipVisitedOnce ==
    /\ [](\A k \in 1..Len(RunOutcomes(dl_run)) :
            /\ RunOutcomes(dl_run)[k].i = k - 1
            /\ RunOutcomes(dl_run)[k].outcome \in TerminalOutcomes)
    /\ [](dl_pc \in {"enhance", "done"} => Len(RunOutcomes(dl_run)) = Len(dl_clips))
    /\ [](dl_pc = "done" /\ enhance_on => enh_i = Len(downloaded_videos))
    /\ [][enh_i' # enh_i /\ dl_run' = dl_run => enh_i' = enh_i + 1]_vars
    /\ <>(dl_pc = "done")

\* the invocation ended: the transfer of the first reference failed and the
\* second reference was transferred
C12_Witness ==
    /\ dl_pc = "done"
    /\ dl_run = 1
    /\ Len(dl_outcome) = 2
    /\ dl_outcome[1].outcome = "failure"
    /\ dl_outcome[2].outcome = "success"

\* C13: when the path derived for a reference exists, from an earlier run or
\* from an earlier reference of the same run, the reference is passed over:
\* no transfer is attempted, and no file is created or modified.
C13_ExistingFileSkipped ==
    [][dl_pc = "loop" /\ dl_i < Len(dl_clips) /\ filename \in files /\ dl_i' # dl_i =>
            /\ files' = files
            /\ fs_log' = fs_log
            /\ dl_i' = dl_i + 1
            /\ dl_outcome' = Append(dl_outcome,
                    Outcome(dl_run, dl_i, filename, "exists", <<>>, FALSE))]_vars

\* within the first invocation two references derived the same filename and
\* the second was passed over
C13_Witness ==
    /\ dl_run = 1
    /\ Len(dl_outcome) = 2
    /\ dl_outcome[1].outcome = "success"
    /\ dl_outcome[2].outcome = "exists"
    /\ dl_outcome[2].name = dl_outcome[1].name
    /\ dl_clips[1].url # dl_clips[2].url

\* C14: for an image URL, a direct transfer that fails, by a raised error or
\* by a response other than success, is followed by one attempt of the
\* fallback; there is no fallback after a direct transfer that succeeded.
C14_FallbackAfterDirectFailure ==
    \A k \in 1..Len(dl_outcome) :
        dl_outcome[k].attempts = <<"direct">> => dl_outcome[k].outcome = "success"

\* a direct transfer ended with a failure and the fallback was not tried
C14_Witness ==
    \E k \in 1..Len(dl_outcome) :
        /\ dl_outcome[k].attempts = <<"direct">>
        /\ dl_outcome[k].outcome = "failure"

\* the class of a reference: a URL of a video file, of the search-engine
\* source, anything else
SortClass(clip) ==
    IF \E ext \in {"mp4", "webm"} : EndsWith(Lower(clip.url), <<".", ext>>) THEN 0
    ELSE IF clip.source = "youtube" THEN 1
    ELSE 2

\* out holds the references of in, class by class, each class in the order
\* it has in in
IsStableClassSort(in, out) ==
    /\ Len(out) = Len(in)
    /\ \A k \in 1..(Len(out) - 1) : SortClass(out[k]) <= SortClass(out[k + 1])
    /\ \A c \in 0..2 :
        SelectSeq(out, LAMBDA x : SortClass(x) = c)
            = SelectSeq(in, LAMBDA x : SortClass(x) = c)

\* C19: with prefer_video, download_clips handles the references in the
\* order of a stable sort into three classes (video-file URLs, URLs of the
\* search-engine source, everything else); without it, in the given order.
C19_StableThreeClassSort ==
    dl_pc # "start" =>
        IF prefer_video THEN IsStableClassSort(dl_input, dl_clips)
        ELSE dl_clips = dl_input

\* the sort moved a video-file URL before the search-engine URL given first
C19_Witness ==
    /\ dl_pc = "loop"
    /\ prefer_video
    /\ Len(dl_input) = 2
    /\ SortClass(dl_input[1]) = 1
    /\ SortClass(dl_input[2]) = 0
    /\ dl_clips = <<dl_input[2], dl_input[1]>>

\* C15: the frame store of a call of process_video is gone when the call
\* has returned or raised: after an encode that succeeded or failed, and
\* after an exception while a frame was read, processed or saved.
C15_FrameStoreReleased == pv_pc \in {"returned", "raised"} => ~temp_exists

\* the call raised in the frame loop, after a frame was saved to the store
C15_Witness ==
    /\ pv_pc = "raised"
    /\ encode_status = "none"
    /\ temp_dir # <<>>

\* C16: when output_path names an existing file, process_video reuses it:
\* no frame is read or processed, the encoder is not run, the file is not
\* written, and output_path is returned.
C16_ExistingOutputReused ==
    output_exists =>
        /\ frame_count = 0
        /\ encoder_runs = <<>>
        /\ ~output_written
        /\ pv_pc = "returned" => pv_result = "output"

\* the encoder wrote an output_path that named a file other than the input
C16_Witness ==
    /\ output_exists
    /\ ~same_path
    /\ encode_status = "ok"
    /\ output_written

\* the upscaling capability is missing, not initialised, or its
\* initialisation failed
CapabilityUnavailable == ~has_realesrgan \/ super_resolution = "None" \/ sr_failed

\* C18: with --enhance-only <dir>, scrape (and with it every source adapter
\* and download) is never called; the process ends with a nonzero status and
\* without a batch run when the capability is unavailable or <dir> is not an
\* existing directory, and otherwise batch_process_directory is run.
C18_EnhanceOnlyShortCircuits ==
    enhance_only # "None" =>
        /\ \A k \in 1..Len(mn_calls) : mn_calls[k] # "scrape"
        /\ mn_pc = "exited" =>
                IF CapabilityUnavailable \/ enhance_dir # "dir"
                THEN mn_status > 0 /\ mn_calls = <<>>
                ELSE mn_calls = <<"batch">>

\* --enhance-only was given with an empty directory name and scrape ran
C18_Witness ==
    /\ enhance_only = ""
    /\ mn_pc = "exited"
    /\ mn_calls = <<"scrape">>

\* the files with an extension of the set, directly contained ones only
\* when not recursive
Collected ==
    {f \in bp_files :
        /\ \E k \in 1..Len(file_types) : PathSuffix(f) = file_types[k]
        /\ recursive \/ ~Contains(f, <<"/">>)}

CallsOf(f) == Len(SelectSeq(bp_calls, LAMBDA c : c.file = f))

EntriesOf(path) == Len(SelectSeq(processed_videos, LAMBDA e : e = path))

\* the directory {a.mp4, b.mkv, c.txt} with the output of a.mp4 present
Scenario ==
    /\ bp_files = {<<"a", ".", "mp4">>, <<"b", ".", "mkv">>, <<"c", ".", "txt">>}
    /\ bp_existing = {<<"a", ".", "mp4">>}
    /\ file_types = <<<<".", "mp4">>, <<".", "mkv">>>>
    /\ ~recursive
    /\ skip_existing

\* C20: batch_process_directory collects exactly the files whose extension
\* is in file_types (directly contained ones only when not recursive); with
\* skip_existing a file whose output exists is listed in the result and
\* process_video is not called for it; every other collected file is given
\* to process_video exactly once. In the scenario the result has 2 entries
\* and only b.mkv is processed.
C20_BatchCollectsAndSkips ==
    /\ bp_pc # "start" =>
            /\ {video_files[k] : k \in 1..Len(video_files)} = Collected
            /\ Len(video_files) = Cardinality(Collected)
    /\ bp_pc = "returned" =>
            /\ \A f \in Collected :
                IF skip_existing /\ f \in bp_existing
                THEN CallsOf(f) = 0 /\ EntriesOf(OutputPath(f)) = 1
                ELSE CallsOf(f) = 1
            /\ \A k \in 1..Len(bp_calls) : bp_calls[k].file \in Collected
            /\ Scenario /\ (\A k \in 1..Len(bp_calls) : bp_calls[k].outcome # "raised") =>
                    /\ Len(processed_videos) = 2
                    /\ bp_calls = <<Called(<<"b", ".", "mkv">>, "output")>>
                        \/ bp_calls = <<Called(<<"b", ".", "mkv">>, "input")>>

\* the scenario has returned with 2 entries after processing b.mkv
C20_Witness ==
    /\ Scenario
    /\ bp_pc = "returned"
    /\ Len(processed_videos) = 2
    /\ bp_calls = <<Called(<<"b", ".", "mkv">>, "output")>>

\* the outcomes of the current invocation that are successful transfers by
\* the video path
VideoSuccesses ==
    {k \in 1..Len(dl_outcome) :
        /\ dl_outcome[k].run = dl_run
        /\ dl_outcome[k].attempts = <<"ytdlp">>
        /\ dl_outcome[k].outcome = "success"}

InDownloadedVideos(name) ==
    \E j \in 1..Len(downloaded_videos) : downloaded_videos[j] = name

\* C21: every reference transferred successfully by the video path (its URL
\* does not end in an image extension) is in the downloaded-videos list that
\* the enhancement stage reads, whatever the extension of its filename.
C21_VideoSuccessRecorded ==
    \A k \in VideoSuccesses : InDownloadedVideos(dl_outcome[k].name)

\* the video path stored a file called clip.mov and the list does not have it
C21_Witness ==
    \E k \in VideoSuccesses :
        /\ dl_outcome[k].name = <<"clip", ".", "mov">>
        /\ dl_clips[dl_outcome[k].i + 1].url
                = <<"https", ":", "/", "/", "host", "/", "clip", ".", "mov">>
        /\ ~InDownloadedVideos(dl_outcome[k].name)

\* the outcomes that record a transfer attempt
Attempted == {k \in 1..Len(dl_outcome) : dl_outcome[k].attempts # <<>>}

\* C22: every transfer attempt, successful or failed, is followed by one
\* randomized delay before the next reference is handled, and a reference
\* passed over without a transfer attempt causes no delay.
C22_DelayAfterEveryAttempt ==
    /\ \A k \in 1..Len(dl_outcome) : dl_outcome[k].delayed <=> k \in Attempted
    /\ dl_delays = Cardinality(Attempted)

\* the video transfer of a reference raised, the loop went on to the next
\* reference and no delay was taken
C22_Witness ==
    /\ Len(dl_outcome) = 1
    /\ dl_outcome[1].attempts = <<"ytdlp">>
    /\ dl_outcome[1].outcome = "failure"
    /\ ~dl_outcome[1].delayed
    /\ dl_i = 1
    /\ dl_delays = 0

\* the position i (counted from 0, as the loop counts) is past half of limit
PastHalfOfLimit(i, limit) == 2 * i >= limit

\* the outcome k belongs to a reference with an image URL whose file did not
\* exist when its turn came
ImageTurn(k) ==
    /\ IsImageUrl(dl_clips[dl_outcome[k].i + 1].url)
    /\ dl_outcome[k].outcome # "exists"

\* C23: with prefer_video set, an image reference is passed over without a
\* transfer when its position is past half of download_limit and is
\* transferred when it is not; with prefer_video unset no image reference is
\* passed over for its position.  For every download_limit >= 1.
C23_SkipOnlyPastHalf ==
    \A k \in 1..Len(dl_outcome) :
        ImageTurn(k) =>
            IF prefer_video /\ PastHalfOfLimit(dl_outcome[k].i, download_limit)
            THEN dl_outcome[k].outcome = "skipped" /\ dl_outcome[k].attempts = <<>>
            ELSE dl_outcome[k].outcome # "skipped" /\ dl_outcome[k].attempts # <<>>

\* download_limit is 1 and the first reference, an image, was passed over
C23_Witness ==
    /\ download_limit = 1
    /\ prefer_video
    /\ Len(dl_outcome) >= 1
    /\ dl_outcome[1].i = 0
    /\ IsImageUrl(dl_clips[1].url)
    /\ dl_outcome[1].outcome = "skipped"

\* the duration d is known and within the range of the source
DurationInRange(d, source) ==
    d # NoneDur /\ source.min_duration <= d /\ d <= source.max_duration

\* C24: every reference returned by scrape_youtube has a duration within
\* [min_duration, max_duration] of its source; an entry whose duration is
\* outside the range, or not known to be inside it, is discarded; and a
\* search that failed or found nothing yields the empty sequence.
C24_DurationsWithinRange ==
    IsYoutube /\ AdReturned =>
        /\ \A k \in 1..Len(ad_result) :
                DurationInRange(ad_result[k].duration, ad_source)
        /\ (feed = <<>> => ad_result = <<>>)

\* scrape_youtube returned a reference whose lookup gave no duration
C24_Witness ==
    /\ IsYoutube
    /\ AdReturned
    /\ \E k \in 1..Len(ad_result) :
        /\ ad_result[k].source = "youtube"
        /\ ad_result[k].duration = NoneDur

\* the URL has a scheme and a network location
IsAbsoluteUrl(url) == SchemeLen(url) > 0 /\ HasNetloc(url) /\ UrlNetloc(url) # <<>>

\* C25: every reference an adapter returns has a non-empty absolute URL; a
\* link or image source that is relative in the listing is resolved against
\* the base URL of the source before the reference is returned.
C25_ReturnedUrlsAbsolute ==
    AdReturned => \A k \in 1..Len(ad_result) : IsAbsoluteUrl(ad_result[k].url)

\* scrape_tenor returned a reference whose URL is the relative data-src of
\* the gallery image
C25_Witness ==
    /\ IsTenor
    /\ AdReturned
    /\ \E k \in 1..Len(ad_result) : ad_result[k].url = <<"/", "a", ".", "GIF">>

\* the calls of process_video that failed: it raised, or the encoder failed
FailedCalls == {k \in 1..Len(bp_calls) : bp_calls[k].outcome \in {"input", "raised"}}

\* C26: a file whose enhancement fails, by an exception or by a failure of
\* the encoder inside process_video, contributes no entry to the result of
\* batch_process_directory, and the files after it are still handled; so
\* every path of the result is an output path under the output directory.
C26_FailedFileLeftOut ==
    bp_pc = "returned" =>
        /\ bp_i = Len(video_files)
        /\ \A k \in FailedCalls :
            /\ EntriesOf(OutputPath(bp_calls[k].file)) = 0
            /\ EntriesOf(InputPath(bp_calls[k].file)) = 0
        /\ \A k \in 1..Len(processed_videos) :
            \E f \in bp_files : processed_videos[k] = OutputPath(f)

\* the encoder failed for the first of two files: the result begins with a
\* path of the input directory, and the second file was processed
C26_Witness ==
    /\ bp_pc = "returned"
    /\ Len(bp_calls) = 2
    /\ bp_calls[1].outcome = "input"
    /\ bp_calls[2].outcome = "output"
    /\ processed_videos
            = <<InputPath(bp_calls[1].file), OutputPath(bp_calls[2].file)>>

\* every call of process_video of the first run wrote its output
FirstRunSucceeded == \A k \in 1..first_calls : bp_calls[k].outcome = "output"

\* C27: batch_process_directory does not take its own outputs as inputs:
\* called a second time on the same directory with skip_existing, after a
\* first call that enhanced every file, it calls process_video for no file
\* and creates no file, also when recursive with the default output
\* directory, which is inside the input directory.
C27_SecondRunDoesNothing ==
    bp_run = 2 /\ skip_existing /\ FirstRunSucceeded =>
        /\ Len(bp_calls) = first_calls
        /\ bp_outputs = first_outputs

\* the second recursive run over {a.mp4} with the default output directory
\* gave upscaled/a.mp4, the output of the first run, to process_video
C27_Witness ==
    /\ bp_run = 2
    /\ skip_existing /\ recursive /\ output_inside
    /\ bp_files = {<<"a", ".", "mp4">>}
    /\ first_calls = 1
    /\ bp_calls = <<Called(<<"a", ".", "mp4">>, "output"),
                    Called(<<"upscaled", "/", "a", ".", "mp4">>, "output")>>
    /\ <<"upscaled", "/", "a", ".", "mp4">> \in bp_outputs \ first_outputs

\* the clip files of a directory
ClipFilesOf(dir) == {f \in DOMAIN dir : IsClipFile(f)}

\* the paths of the directory that hold the content c
HoldersOf(c) == {n \in DOMAIN rn_dir : rn_dir[n] = c}

\* C28: rename_clips never destroys a clip: for every directory, prefix and
\* numbered, the number of clip files stays what it was and the content of
\* each original clip is held by exactly one file, also when a generated
\* name is the name of a clip that has not been renamed yet.
C28_RenameKeepsEveryClip ==
    rn_pc \in {"loop", "returned", "raised"} =>
        /\ Cardinality(ClipFilesOf(rn_dir)) = Cardinality(ClipFilesOf(rn_before))
        /\ \A f \in ClipFilesOf(rn_before) : Cardinality(HoldersOf(rn_before[f])) = 1

\* numbering {0.mp4, 001.mp4}: 0.mp4 was renamed to 001.mp4 over the other
\* clip and then to 002.mp4, the only file left
C28_Witness ==
    /\ rn_pc = "returned"
    /\ rn_numbered /\ rn_prefix = <<>>
    /\ DOMAIN rn_before = {<<"0", ".", "mp4">>, <<"0", "0", "1", ".", "mp4">>}
    /\ DOMAIN rn_dir = {<<"0", "0", "2", ".", "mp4">>}
    /\ rn_dir[<<"0", "0", "2", ".", "mp4">>] = <<"0", ".", "mp4">>
    /\ HoldersOf(<<"0", "0", "1", ".", "mp4">>) = {}

\* the outputs of the logged sources whose adapter returned, concatenated
RECURSIVE ReturnedOutputs(_)
ReturnedOutputs(log) ==
    IF log = <<>> THEN <<>>
    ELSE (IF Head(log).outcome = "returned" THEN Head(log).output ELSE <<>>)
            \o ReturnedOutputs(Tail(log))

\* C10: scrape handles every configured source in configuration order, also
\* after a source that raised or is unknown, and passes to download_clips
\* the first download_limit references of the concatenation, in
\* configuration order, of the lists the adapters returned.
C10_AllSourcesThenLimit ==
    sc_pc = "download" =>
        /\ Len(sc_log) = Len(sources)
        /\ \A i \in 1..Len(sources) : sc_log[i].name = sources[i].name
        /\ handed = Take(ReturnedOutputs(sc_log), download_limit)
        /\ dl_clips = handed

\* a source raised or was unknown, a later one returned, and the
\* concatenation was longer than download_limit
C10_Witness ==
    /\ sc_pc = "download"
    /\ Len(sc_log) = 2
    /\ sc_log[1].outcome \in {"raised", "unknown"}
    /\ sc_log[2].outcome = "returned"
    /\ Len(sc_log[2].output) > download_limit
    /\ Len(handed) = download_limit

SafeToks == WordToks \cup {"-", "_", "."}

AllSafe(f) == \A i \in 1..Len(f) : f[i] \in SafeToks

\* the text after the last dot of f is not empty
HasNonEmptyExtension(f) == Contains(f, <<".">>) /\ RFind(f, <<".">>) < Len(f)

\* C4: for every URL and title the derived filename consists of safe
\* characters only and has a non-empty extension.
C4_FilenameSafeWithExtension ==
    fn_pc = "done" => AllSafe(fn_filename) /\ HasNonEmptyExtension(fn_filename)

\* a path whose last segment ends in a dot has been derived
C4_Witness ==
    /\ fn_pc = "done"
    /\ EndsWith(UrlPath(fn_url), <<"a", ".">>)
    /\ ~IsYoutubeUrl(fn_url)
====
